---- MODULE Spec2Model ----
(***************************************************************************)
(* 4D Tic-Tac-Toe (3x3x3x3, 4-5 players): the Board, the WinChecker line   *)
(* table and the Game state machine of src/game/core, as a state machine.  *)
(***************************************************************************)
EXTENDS Integers, Sequences, FiniteSets, TLC

\* ------------------------------------------------------------------------
\* Values
\* ------------------------------------------------------------------------

\* Python's None for a cell, a symbol or an error message. Player symbols
\* accepted by add_player have 1 or 2 characters, so none of them equals it.
None == "None"

\* GameState enumeration
WAITING == "waiting"
PLAYING == "playing"
FINISHED == "finished"

\* Board.SIZE
SIZE == 3

\* Game.MIN_PLAYERS, Game.MAX_PLAYERS
MIN_PLAYERS == 4
MAX_PLAYERS == 5

\* range(SIZE)
Axis == 0 .. (SIZE - 1)

\* the 81 in-range coordinates (w, x, y, z)
Coords == Axis \X Axis \X Axis \X Axis

\* ------------------------------------------------------------------------
\* Board
\* ------------------------------------------------------------------------

\* Board.__init__: every cell None
Board_init == [p \in Coords |-> None]

\* Board.is_valid_position
is_valid_position(p) ==
    /\ 0 <= p[1] /\ p[1] < SIZE
    /\ 0 <= p[2] /\ p[2] < SIZE
    /\ 0 <= p[3] /\ p[3] < SIZE
    /\ 0 <= p[4] /\ p[4] < SIZE

\* faulty variant of is_valid_move: the cell is not looked at
is_valid_move_anywhere(b, p) == is_valid_position(p)

\* Board.is_valid_move: position valid and cell empty
is_valid_move(b, p) ==
    IF ~is_valid_position(p) THEN FALSE ELSE b[p] = None

\* Board.make_move: returns (board after the call, returned boolean)
Board_make_move(b, player_symbol, p) ==
    IF ~is_valid_move(b, p)
    THEN [board |-> b, ret |-> FALSE]
    ELSE [board |-> [b EXCEPT ![p] = player_symbol], ret |-> TRUE]

\* Board.get_all_positions: the 81 positions, w outermost, z innermost
get_all_positions ==
    [i \in 1 .. (SIZE * SIZE * SIZE * SIZE) |->
        << (i - 1) \div (SIZE * SIZE * SIZE),
           ((i - 1) \div (SIZE * SIZE)) % SIZE,
           ((i - 1) \div SIZE) % SIZE,
           (i - 1) % SIZE >>]

\* faulty variant of get_empty_positions: the emptiness test is inverted
get_empty_positions_inverted(b) ==
    SelectSeq(get_all_positions, LAMBDA p : b[p] # None)

\* Board.get_empty_positions: empty positions in enumeration order
get_empty_positions(b) ==
    SelectSeq(get_all_positions, LAMBDA p : b[p] = None)

\* Board objects in memory. Board.board is a list of lists of lists of lists:
\* a heap is a sequence of lists, a list's identity is its index in the heap,
\* and a Board is the identity of its outermost list. The outermost list
\* holds the identities of 3 lists indexed by x, each of those 3 lists
\* indexed by y, each of those 3 lists of cell values indexed by z.

\* lists one Board() allocates: 1 + 3 + 9 + 27
ListsPerBoard == 1 + SIZE + SIZE * SIZE + SIZE * SIZE * SIZE

\* identities of the lists of the Board allocated after `base` lists
XListId(base, w) == base + 1 + 1 + w
YListId(base, w, x) == base + 1 + SIZE + 1 + SIZE * w + x

\* faulty variant of ZListId: one innermost list shared by all y of a (w, x)
ZListId_shared(base, w, x, y) ==
    base + 1 + SIZE + SIZE * SIZE + 1 + SIZE * SIZE * w + SIZE * x

\* the innermost comprehension builds a new list for every (w, x, y)
ZListId(base, w, x, y) ==
    base + 1 + SIZE + SIZE * SIZE + 1 + SIZE * SIZE * w + SIZE * x + y

\* the lists built by the nested comprehension of Board.__init__
NewLists(base) ==
    [i \in 1 .. ListsPerBoard |->
        IF i = 1
        THEN [w \in 1 .. SIZE |-> XListId(base, w - 1)]
        ELSE IF i <= 1 + SIZE
        THEN [x \in 1 .. SIZE |-> YListId(base, i - 2, x - 1)]
        ELSE IF i <= 1 + SIZE + SIZE * SIZE
        THEN [y \in 1 .. SIZE |->
                 ZListId(base, (i - 2 - SIZE) \div SIZE,
                         (i - 2 - SIZE) % SIZE, y - 1)]
        ELSE [z \in 1 .. SIZE |-> None]]

\* Board(): the heap with the new lists, and the new board's identity
Board_new(h) == [heap |-> h \o NewLists(Len(h)), root |-> Len(h) + 1]

\* the innermost list self.board[w][x][y] of board `root`
InnerList(h, root, p) == h[h[h[root][p[1] + 1]][p[2] + 1]][p[3] + 1]

\* self.board[w][x][y][z], read and written
Load(h, root, p) == h[InnerList(h, root, p)][p[4] + 1]
Store(h, root, p, value) ==
    [h EXCEPT ![InnerList(h, root, p)][p[4] + 1] = value]

\* the 81 cells of board `root` as a function of the coordinate
Cells(h, root) == [p \in Coords |-> Load(h, root, p)]

\* Board.get: (raised, value)
Board_get(h, root, p) ==
    IF ~is_valid_position(p)
    THEN [raised |-> "ValueError", value |-> None]
    ELSE [raised |-> None, value |-> Load(h, root, p)]

\* Board.set: (heap after the call, raised)
Board_set(h, root, p, value) ==
    IF ~is_valid_position(p)
    THEN [heap |-> h, raised |-> "ValueError"]
    ELSE [heap |-> Store(h, root, p, value), raised |-> None]

\* Board.make_move on a board in memory: (heap after the call, returned
\* boolean)
Board_make_move_in(h, root, player_symbol, p) ==
    IF ~is_valid_move(Cells(h, root), p)
    THEN [heap |-> h, ret |-> FALSE]
    ELSE [heap |-> Store(h, root, p, player_symbol), ret |-> TRUE]

\* Board.count_moves
count_moves(b) == SIZE * SIZE * SIZE * SIZE - Len(get_empty_positions(b))

\* the loop of Board.copy: the 81 assignments new.board[..] = self.board[..]
\* in enumeration order; a slot written more than once keeps the last value.
\* writes lists, for the n-th assignment, the list and the slot written.
CopyCells(h, src, dst) ==
    LET writes == {<< InnerList(h, dst, get_all_positions[n]),
                      get_all_positions[n][4] + 1, n >> :
                      n \in 1 .. Len(get_all_positions)}
    IN  [i \in 1 .. Len(h) |->
            [k \in 1 .. SIZE |->
                LET here == {w \in writes : w[1] = i /\ w[2] = k}
                IN  IF here = {} THEN h[i][k]
                    ELSE Load(h, src,
                              get_all_positions[
                                 (CHOOSE w \in here :
                                     \A v \in here : v[3] <= w[3])[3]])]]

\* faulty variant of Board_copy: only the outermost list is new, the lists
\* inside are the original's
Board_copy_shallow(h, root) ==
    [heap |-> Append(h, h[root]), root |-> Len(h) + 1]

\* Board.copy: a new Board filled cell by cell
Board_copy(h, root) ==
    [heap |-> CopyCells(Board_new(h).heap, root, Board_new(h).root),
     root |-> Board_new(h).root]

\* Game.get_board_copy: self.board.copy()
get_board_copy(h, root) == Board_copy(h, root)

\* ------------------------------------------------------------------------
\* WinChecker
\* ------------------------------------------------------------------------

\* WinChecker._generate_directions: the 80 non-zero vectors over {-1,0,1}
DIRECTIONS ==
    LET steps == << -1, 0, 1 >>
        all == [i \in 1 .. 81 |->
                  << steps[((i - 1) \div 27) + 1],
                     steps[(((i - 1) \div 9) % 3) + 1],
                     steps[(((i - 1) \div 3) % 3) + 1],
                     steps[((i - 1) % 3) + 1] >>]
    IN  SelectSeq(all, LAMBDA d : d # << 0, 0, 0, 0 >>)

\* tuple comparison of two positions (Python's ordering of tuples)
PosLess(p, q) ==
    \E i \in 1 .. 4 : /\ \A j \in 1 .. (i - 1) : p[j] = q[j]
                      /\ p[i] < q[i]

\* faulty variant of SortedTuple: the positions are left in walking order
SortedTuple_as_walked(positions) == positions

\* tuple(sorted(positions)) for a list of three positions
SortedTuple(positions) ==
    LET rank(i) == Cardinality({j \in 1 .. 3 :
                       \/ PosLess(positions[j], positions[i])
                       \/ (positions[j] = positions[i] /\ j < i)}) + 1
    IN  [k \in 1 .. 3 |-> positions[CHOOSE i \in 1 .. 3 : rank(i) = k]]

\* faulty variant of Walk: the steps counted from 1
Walk_from_one(p, d) ==
    [step \in 1 .. 3 |->
        << p[1] + step * d[1], p[2] + step * d[2],
           p[3] + step * d[3], p[4] + step * d[4] >>]

\* the path walked by the step loop of _precompute_winning_lines from
\* start position p in direction d (three steps, bounds not yet checked)
Walk(p, d) ==
    [step \in 1 .. 3 |->
        << p[1] + (step - 1) * d[1],
           p[2] + (step - 1) * d[2],
           p[3] + (step - 1) * d[3],
           p[4] + (step - 1) * d[4] >>]

\* the paths of _precompute_winning_lines that pass the `valid` test, in
\* loop order: start positions w, x, y, z ascending, then DIRECTIONS order
ValidPaths ==
    LET nd == Len(DIRECTIONS)
        all == [n \in 1 .. (Len(get_all_positions) * nd) |->
                  Walk(get_all_positions[((n - 1) \div nd) + 1],
                       DIRECTIONS[((n - 1) % nd) + 1])]
    IN  SelectSeq(all, LAMBDA path :
                          \A step \in 1 .. 3 : is_valid_position(path[step]))

\* line_tuple of every valid path, in the same order
LineTuples == [n \in 1 .. Len(ValidPaths) |-> SortedTuple(ValidPaths[n])]

\* the valid paths that pass `line_tuple not in lines_set`: lines_set holds
\* the sorted tuples of all earlier valid paths, so these are the paths with
\* no earlier valid path of the same sorted tuple
FreshPaths ==
    SelectSeq([n \in 1 .. Len(ValidPaths) |-> n],
              LAMBDA n : \A m \in 1 .. (n - 1) : LineTuples[m] # LineTuples[n])

\* WinChecker._precompute_winning_lines
precompute_winning_lines ==
    [i \in 1 .. Len(FreshPaths) |-> ValidPaths[FreshPaths[i]]]

\* faulty variant of build_position_line_map: a line is listed only under
\* its first position
build_position_line_map_first(lines) ==
    [p \in {q \in Coords : \E i \in 1 .. Len(lines) : lines[i][1] = q} |->
        SelectSeq([i \in 1 .. Len(lines) |-> i],
                  LAMBDA i : lines[i][1] = p)]

\* WinChecker._build_position_line_map for the lines table `lines`:
\* position -> indices of the lines through it, in the order of the table
build_position_line_map(lines) ==
    [p \in {q \in Coords : \E i \in 1 .. Len(lines) :
                              \E s \in 1 .. 3 : lines[i][s] = q} |->
        SelectSeq([i \in 1 .. Len(lines) |-> i],
                  LAMBDA i : \E s \in 1 .. 3 : lines[i][s] = p)]

\* WinChecker.__init__: the object's two tables
WinChecker_init ==
    [winning_lines |-> precompute_winning_lines,
     position_to_lines |-> build_position_line_map(precompute_winning_lines)]

\* get_win_checker(): the process-wide instance, built once
get_win_checker == WinChecker_init

\* the test shared by check_win, check_win_all_positions: all three cells
\* of the line hold the same symbol and it is not None
LineComplete(b, line) ==
    /\ b[line[1]] # None
    /\ \A s \in 1 .. 3 : b[line[s]] = b[line[1]]

\* the line loop of check_win: symbol of the first complete line among
\* those with the given indices, None when there is none
FirstComplete(wc, b, hits) ==
    IF Len(hits) > 0 THEN b[wc.winning_lines[hits[1]][1]] ELSE None

\* faulty variant of check_win: only the first line through the position is looked at
check_win_first_line_only(wc, b, last_pos) ==
    IF b[last_pos] = None THEN None
    ELSE IF last_pos \notin DOMAIN wc.position_to_lines THEN None
    ELSE FirstComplete(wc, b,
            SelectSeq(SubSeq(wc.position_to_lines[last_pos], 1, 1),
                      LAMBDA i : LineComplete(b, wc.winning_lines[i])))

\* WinChecker.check_win: symbol of the first complete line through last_pos
check_win(wc, b, last_pos) ==
    IF b[last_pos] = None THEN None
    ELSE IF last_pos \notin DOMAIN wc.position_to_lines THEN None
    ELSE FirstComplete(wc, b,
            SelectSeq(wc.position_to_lines[last_pos],
                      LAMBDA i : LineComplete(b, wc.winning_lines[i])))

\* faulty variant of check_win_all_positions: a line counts when its three
\* cells are occupied, whoever holds them
check_win_all_positions_occupied(wc, b) ==
    FirstComplete(wc, b,
        SelectSeq([i \in 1 .. Len(wc.winning_lines) |-> i],
                  LAMBDA i : \A s \in 1 .. 3 :
                                b[wc.winning_lines[i][s]] # None))

\* WinChecker.check_win_all_positions: symbol of the first complete line of
\* the table, None when there is none
check_win_all_positions(wc, b) ==
    FirstComplete(wc, b,
        SelectSeq([i \in 1 .. Len(wc.winning_lines) |-> i],
                  LAMBDA i : LineComplete(b, wc.winning_lines[i])))

\* WinChecker.count_winning_lines
count_winning_lines(wc) == Len(wc.winning_lines)

\* the line loop of get_winning_line: first of the lines found, << >> (None)
\* when none was found
FirstLine(hits) == IF Len(hits) > 0 THEN hits[1] ELSE << >>

\* WinChecker.get_winning_line: first line all of whose cells hold
\* player_symbol
get_winning_line(wc, b, player_symbol) ==
    FirstLine(SelectSeq(wc.winning_lines,
                 LAMBDA line : \A s \in 1 .. 3 : b[line[s]] = player_symbol))

\* ------------------------------------------------------------------------
\* Strategies: SimpleAI, MinimaxAI, LearnedAI. A board argument is the
\* function of its 81 cells; board.copy() followed by make_move on the copy
\* is Board_make_move on that function. A call whose result depends on
\* random.choice or on the iteration order of a set of symbols is the set
\* of the results it can have.
\* ------------------------------------------------------------------------

\* what get_move does: return a coordinate, or raise
Moved(pos) == [raised |-> None, move |-> pos]
Failed(exc) == [raised |-> exc, move |-> << >>]

\* the board after test_board = board.copy(); test_board.make_move(symbol, p)
TestBoard(b, symbol, p) == Board_make_move(b, symbol, p).board

\* the empty positions where placing symbol makes check_win return symbol,
\* in the order of get_empty_positions
CompletingMoves(wc, b, symbol) ==
    SelectSeq(get_empty_positions(b),
              LAMBDA p : check_win(wc, TestBoard(b, symbol, p), p) = symbol)

\* faulty variant of find_winning_move: the positions tried are all 81, not
\* the empty ones
find_winning_move_all_positions(wc, b, symbol) ==
    FirstLine(SelectSeq(get_all_positions,
                 LAMBDA p : check_win(wc, [b EXCEPT ![p] = symbol], p)
                               = symbol))

\* _find_winning_move (the same code in the three classes): the first empty
\* position that wins for symbol, << >> (None) when there is none
find_winning_move(wc, b, symbol) == FirstLine(CompletingMoves(wc, b, symbol))

\* faulty variant of opponent_symbols_on: the symbols kept are those equal
\* to player_symbol
opponent_symbols_on_own(b, player_symbol) ==
    {b[p] : p \in Coords} \cap {player_symbol}

\* the symbols on the board other than player_symbol (a set)
opponent_symbols_on(b, player_symbol) ==
    {b[p] : p \in Coords} \ {None, "", player_symbol}

\* _find_blocking_move for a given list or set of opponent symbols: the
\* first winning position of the first opponent that has one; the
\* opponents are tried in the iteration order of the collection, which for
\* a set of strings is any order. The results it can have; << >> is None.
find_blocking_move(wc, b, opponents) ==
    LET first == {find_winning_move(wc, b, o) : o \in opponents}
    IN  IF first \subseteq {<< >>} THEN {<< >>} ELSE first \ {<< >>}

\* center_positions of SimpleAI.get_move and LearnedAI.get_move
center_positions ==
    << << 1, 1, 1, 1 >>, << 1, 1, 1, 0 >>, << 1, 1, 0, 1 >>,
       << 1, 0, 1, 1 >>, << 0, 1, 1, 1 >>, << 1, 1, 1, 2 >>,
       << 1, 1, 2, 1 >>, << 1, 2, 1, 1 >>, << 2, 1, 1, 1 >>,
       << 1, 1, 0, 0 >>, << 1, 0, 1, 0 >>, << 0, 1, 1, 0 >>,
       << 1, 0, 0, 1 >>, << 0, 1, 0, 1 >>, << 0, 0, 1, 1 >> >>

\* random.choice(seq): any element
Choices(seq) == {seq[i] : i \in 1 .. Len(seq)}

\* faulty variant of CenterOrRandom: any empty position, the centre
\* positions not preferred
CenterOrRandom_any(b) == {Moved(c) : c \in Choices(get_empty_positions(b))}

\* strategies 3 and 4 of SimpleAI.get_move: an empty centre position if
\* there is one, else any empty position
CenterOrRandom(b) ==
    IF \E i \in 1 .. Len(center_positions) : b[center_positions[i]] = None
    THEN {Moved(c) : c \in {q \in Choices(center_positions) : b[q] = None}}
    ELSE {Moved(c) : c \in Choices(get_empty_positions(b))}

\* faulty variant of SimpleAI_get_move: the block is looked for before the
\* win
SimpleAI_get_move_block_first(wc, b, player_symbol) ==
    LET winning_move == find_winning_move(wc, b, player_symbol)
        blocking_move == find_blocking_move(wc, b,
                             opponent_symbols_on(b, player_symbol))
    IN  IF Len(get_empty_positions(b)) = 0
        THEN {Failed("ValueError")}
        ELSE IF blocking_move # {<< >>}
        THEN {Moved(m) : m \in blocking_move}
        ELSE IF winning_move # << >> THEN {Moved(winning_move)}
        ELSE CenterOrRandom(b)

\* SimpleAI.get_move: the results the call can have
SimpleAI_get_move(wc, b, player_symbol) ==
    LET winning_move == find_winning_move(wc, b, player_symbol)
        blocking_move == find_blocking_move(wc, b,
                             opponent_symbols_on(b, player_symbol))
    IN  IF Len(get_empty_positions(b)) = 0
        THEN {Failed("ValueError")}
        ELSE IF winning_move # << >> THEN {Moved(winning_move)}
        ELSE IF blocking_move # {<< >>}
        THEN {Moved(m) : m \in blocking_move}
        ELSE CenterOrRandom(b)

\* math.inf, as an integer above every value _minimax can return
inf == 1000000

Max(a, b) == IF a >= b THEN a ELSE b

Min(a, b) == IF a <= b THEN a ELSE b

\* symbols.count(self.player_symbol) for the three cells of a line
my_count(b, line, me) == Cardinality({k \in 1 .. Len(line) : b[line[k]] = me})

\* sum(1 for s in symbols if s and s != self.player_symbol)
opponent_count(b, line, me) ==
    Cardinality({k \in 1 .. Len(line) : b[line[k]] \notin {None, "", me}})

\* what one line adds to the score in _evaluate_position
LineScore(b, line, me) ==
    LET mine == my_count(b, line, me)
        theirs == opponent_count(b, line, me)
    IN  IF mine > 0 /\ theirs = 0 THEN mine * 10
        ELSE IF theirs > 0 /\ mine = 0 THEN 0 - theirs * 10
        ELSE 0

\* the number of lines that add v to the score, scores being the set of
\* the lines' numbers paired with what they add
LinesScoring(scores, v) == Cardinality({e \in scores : e[2] = v})

\* MinimaxAI._evaluate_position: the sum of LineScore over the table
evaluate_position(wc, b, me) ==
    LET scores == {<< i, LineScore(b, wc.winning_lines[i], me) >> :
                      i \in 1 .. Len(wc.winning_lines)}
    IN    10 * LinesScoring(scores, 10) + 20 * LinesScoring(scores, 20)
        + 30 * LinesScoring(scores, 30)
        - 10 * LinesScoring(scores, -10) - 20 * LinesScoring(scores, -20)
        - 30 * LinesScoring(scores, -30)

RECURSIVE minimax(_, _, _, _, _, _, _, _)
RECURSIVE MaxLoop(_, _, _, _, _, _, _, _, _, _)
RECURSIVE MinLoop(_, _, _, _, _, _, _, _, _, _, _)

\* the maximizing loop of _minimax from empty_positions[i] on
MaxLoop(wc, b, me, depth, opps, empties, i, max_eval, alpha, beta) ==
    IF i > Len(empties) THEN max_eval
    ELSE IF check_win(wc, TestBoard(b, me, empties[i]), empties[i]) = me
    THEN 1000
    ELSE LET eval_score == minimax(wc, TestBoard(b, me, empties[i]), me,
                                   depth - 1, FALSE, opps, alpha, beta)
         IN  IF beta <= Max(alpha, eval_score)
             THEN Max(max_eval, eval_score)
             ELSE MaxLoop(wc, b, me, depth, opps, empties, i + 1,
                          Max(max_eval, eval_score),
                          Max(alpha, eval_score), beta)

\* the minimizing loops of _minimax from empty_positions[i] and
\* opponent_symbols[j] on; the break leaves the loop over the opponents only
MinLoop(wc, b, me, depth, opps, empties, i, j, min_eval, alpha, beta) ==
    IF i > Len(empties) THEN min_eval
    ELSE IF j > Len(opps)
    THEN MinLoop(wc, b, me, depth, opps, empties, i + 1, 1,
                 min_eval, alpha, beta)
    ELSE IF check_win(wc, TestBoard(b, opps[j], empties[i]), empties[i])
               = opps[j]
    THEN -1000
    ELSE LET eval_score == minimax(wc, TestBoard(b, opps[j], empties[i]), me,
                                   depth - 1, TRUE, opps, alpha, beta)
         IN  IF Min(beta, eval_score) <= alpha
             THEN MinLoop(wc, b, me, depth, opps, empties, i + 1, 1,
                          Min(min_eval, eval_score), alpha,
                          Min(beta, eval_score))
             ELSE MinLoop(wc, b, me, depth, opps, empties, i, j + 1,
                          Min(min_eval, eval_score), alpha,
                          Min(beta, eval_score))

\* MinimaxAI._minimax
minimax(wc, b, me, depth, maximizing, opps, alpha, beta) ==
    IF depth = 0 THEN evaluate_position(wc, b, me)
    ELSE LET winner == check_win_all_positions(wc, b) IN
    IF winner \notin {None, ""}
    THEN IF winner = me THEN 1000 ELSE -1000
    ELSE IF Len(get_empty_positions(b)) = 0 THEN 0
    ELSE IF maximizing
    THEN MaxLoop(wc, b, me, depth, opps, get_empty_positions(b), 1,
                 0 - inf, alpha, beta)
    ELSE MinLoop(wc, b, me, depth, opps, get_empty_positions(b), 1, 1,
                 inf, alpha, beta)

\* _minimax again, followed together with the boards it looks at: value is
\* what it returns, plies the largest number of placements made on the
\* board of the call to reach a board that was looked at (by check_win or
\* by _evaluate_position)
Searched(value, plies) == [value |-> value, plies |-> plies]

RECURSIVE SearchNode(_, _, _, _, _, _, _, _)
RECURSIVE SearchMax(_, _, _, _, _, _, _, _, _, _, _)
RECURSIVE SearchMin(_, _, _, _, _, _, _, _, _, _, _, _)

\* the maximizing loop from empty_positions[i] on
SearchMax(wc, b, me, depth, opps, empties, i, max_eval, alpha, beta, plies) ==
    IF i > Len(empties) THEN Searched(max_eval, plies)
    ELSE IF check_win(wc, TestBoard(b, me, empties[i]), empties[i]) = me
    THEN Searched(1000, Max(plies, 1))
    ELSE LET below == SearchNode(wc, TestBoard(b, me, empties[i]), me,
                                 depth - 1, FALSE, opps, alpha, beta)
             seen == Max(plies, below.plies + 1)
         IN  IF beta <= Max(alpha, below.value)
             THEN Searched(Max(max_eval, below.value), seen)
             ELSE SearchMax(wc, b, me, depth, opps, empties, i + 1,
                            Max(max_eval, below.value),
                            Max(alpha, below.value), beta, seen)

\* the minimizing loops from empty_positions[i] and opponent_symbols[j] on
SearchMin(wc, b, me, depth, opps, empties, i, j, min_eval, alpha, beta, plies) ==
    IF i > Len(empties) THEN Searched(min_eval, plies)
    ELSE IF j > Len(opps)
    THEN SearchMin(wc, b, me, depth, opps, empties, i + 1, 1,
                   min_eval, alpha, beta, plies)
    ELSE IF check_win(wc, TestBoard(b, opps[j], empties[i]), empties[i])
               = opps[j]
    THEN Searched(-1000, Max(plies, 1))
    ELSE LET below == SearchNode(wc, TestBoard(b, opps[j], empties[i]), me,
                                 depth - 1, TRUE, opps, alpha, beta)
             seen == Max(plies, below.plies + 1)
         IN  IF Min(beta, below.value) <= alpha
             THEN SearchMin(wc, b, me, depth, opps, empties, i + 1, 1,
                            Min(min_eval, below.value), alpha,
                            Min(beta, below.value), seen)
             ELSE SearchMin(wc, b, me, depth, opps, empties, i, j + 1,
                            Min(min_eval, below.value), alpha,
                            Min(beta, below.value), seen)

\* MinimaxAI._minimax with the boards looked at
SearchNode(wc, b, me, depth, maximizing, opps, alpha, beta) ==
    IF depth = 0 THEN Searched(evaluate_position(wc, b, me), 0)
    ELSE LET winner == check_win_all_positions(wc, b) IN
    IF winner \notin {None, ""}
    THEN Searched(IF winner = me THEN 1000 ELSE -1000, 0)
    ELSE IF Len(get_empty_positions(b)) = 0 THEN Searched(0, 0)
    ELSE IF maximizing
    THEN SearchMax(wc, b, me, depth, opps, get_empty_positions(b), 1,
                   0 - inf, alpha, beta, 0)
    ELSE SearchMin(wc, b, me, depth, opps, get_empty_positions(b), 1, 1,
                   inf, alpha, beta, 0)

\* _minimax with the two pruning breaks taken out: every empty position
\* and every opponent is tried unless a completed line ends the loop
RECURSIVE FullNode(_, _, _, _, _, _)
RECURSIVE FullMax(_, _, _, _, _, _, _, _)
RECURSIVE FullMin(_, _, _, _, _, _, _, _, _)

FullMax(wc, b, me, depth, opps, empties, i, max_eval) ==
    IF i > Len(empties) THEN max_eval
    ELSE IF check_win(wc, TestBoard(b, me, empties[i]), empties[i]) = me
    THEN 1000
    ELSE FullMax(wc, b, me, depth, opps, empties, i + 1,
                 Max(max_eval,
                     FullNode(wc, TestBoard(b, me, empties[i]), me,
                              depth - 1, FALSE, opps)))

FullMin(wc, b, me, depth, opps, empties, i, j, min_eval) ==
    IF i > Len(empties) THEN min_eval
    ELSE IF j > Len(opps)
    THEN FullMin(wc, b, me, depth, opps, empties, i + 1, 1, min_eval)
    ELSE IF check_win(wc, TestBoard(b, opps[j], empties[i]), empties[i])
               = opps[j]
    THEN -1000
    ELSE FullMin(wc, b, me, depth, opps, empties, i, j + 1,
                 Min(min_eval,
                     FullNode(wc, TestBoard(b, opps[j], empties[i]), me,
                              depth - 1, TRUE, opps)))

FullNode(wc, b, me, depth, maximizing, opps) ==
    IF depth = 0 THEN evaluate_position(wc, b, me)
    ELSE LET winner == check_win_all_positions(wc, b) IN
    IF winner \notin {None, ""}
    THEN IF winner = me THEN 1000 ELSE -1000
    ELSE IF Len(get_empty_positions(b)) = 0 THEN 0
    ELSE IF maximizing
    THEN FullMax(wc, b, me, depth, opps, get_empty_positions(b), 1, 0 - inf)
    ELSE FullMin(wc, b, me, depth, opps, get_empty_positions(b), 1, 1, inf)

\* MinimaxAI._get_opponent_symbols: list(set), the symbols in any order
RECURSIVE Orders(_)
Orders(symbols) ==
    IF symbols = {} THEN {<< >>}
    ELSE UNION {{<< o >> \o rest : rest \in Orders(symbols \ {o})} :
                   o \in symbols}

get_opponent_symbols(b, me) == Orders(opponent_symbols_on(b, me))

\* the opponents of the list that have a winning position, in list order
Threats(wc, b, opps) ==
    SelectSeq(opps, LAMBDA o : Len(CompletingMoves(wc, b, o)) > 0)

\* (variant) no blocking move is looked for
MinimaxAI_find_blocking_move_none(wc, b, opps) == << >>

\* MinimaxAI._find_blocking_move: the first winning position of the first
\* opponent of the list that has one, << >> (None) when none has
MinimaxAI_find_blocking_move(wc, b, opps) ==
    LET able == Threats(wc, b, opps)
    IN  IF Len(able) = 0 THEN << >>
        ELSE find_winning_move(wc, b, able[1])

\* the loop over empty_positions in MinimaxAI.get_move from position i on,
\* and the return after it
RECURSIVE BestMove(_, _, _, _, _, _, _, _, _)
BestMove(wc, b, me, max_depth, opps, empties, i, best_move, best_score) ==
    IF i > Len(empties)
    THEN IF best_move # << >> THEN best_move ELSE empties[1]
    ELSE IF check_win(wc, TestBoard(b, me, empties[i]), empties[i]) = me
    THEN empties[i]
    ELSE LET score == minimax(wc, TestBoard(b, me, empties[i]), me,
                              max_depth - 1, FALSE, opps, 0 - inf, inf)
         IN  IF score > best_score
             THEN BestMove(wc, b, me, max_depth, opps, empties, i + 1,
                           empties[i], score)
             ELSE BestMove(wc, b, me, max_depth, opps, empties, i + 1,
                           best_move, best_score)

\* MinimaxAI.get_move with opponent_symbols the list opps (the list given,
\* or one of get_opponent_symbols): the results the call can have
MinimaxAI_get_move(wc, b, me, max_depth, opps) ==
    LET winning_move == find_winning_move(wc, b, me)
        blocking_move == MinimaxAI_find_blocking_move(wc, b, opps)
    IN  IF Len(get_empty_positions(b)) = 0
        THEN {Failed("ValueError")}
        ELSE IF winning_move # << >> THEN {Moved(winning_move)}
        ELSE IF blocking_move # << >> THEN {Moved(blocking_move)}
        ELSE {Moved(BestMove(wc, b, me, max_depth, opps,
                             get_empty_positions(b), 1, << >>, 0 - inf))}

\* the loop over empty_positions in MinimaxAI.get_move from position i on:
\* the largest number of placements made on b to reach a board looked at
RECURSIVE SearchPlies(_, _, _, _, _, _, _, _)
SearchPlies(wc, b, me, max_depth, opps, empties, i, plies) ==
    IF i > Len(empties) THEN plies
    ELSE IF check_win(wc, TestBoard(b, me, empties[i]), empties[i]) = me
    THEN Max(plies, 1)
    ELSE SearchPlies(wc, b, me, max_depth, opps, empties, i + 1,
             Max(plies,
                 SearchNode(wc, TestBoard(b, me, empties[i]), me,
                            max_depth - 1, FALSE, opps, 0 - inf, inf).plies
                   + 1))

\* MinimaxAI.get_move: the largest number of placements made on b to reach
\* a board looked at (the fast paths place one symbol; nothing is placed
\* on a full board)
MinimaxAI_get_move_plies(wc, b, me, max_depth, opps) ==
    IF Len(get_empty_positions(b)) = 0 THEN 0
    ELSE IF find_winning_move(wc, b, me) # << >> THEN 1
    ELSE IF MinimaxAI_find_blocking_move(wc, b, opps) # << >> THEN 1
    ELSE SearchPlies(wc, b, me, max_depth, opps, get_empty_positions(b),
                     1, 1)

\* A score of LearnedAI.move_scores is (wins - losses) / total, kept as the
\* pair of its numerator and its positive denominator.
Score(num, den) == [num |-> num, den |-> den]

\* self.move_scores.get(pos, 0.0); move_scores is a function on the
\* positions that have a score
ScoreOf(move_scores, pos) ==
    IF pos \in DOMAIN move_scores THEN move_scores[pos] ELSE Score(0, 1)

\* s > t and s = t for scores
ScoreGreater(s, t) == s.num * t.den > t.num * s.den

ScoreEqual(s, t) == s.num * t.den = t.num * s.den

\* score > 0 and score < -0.3
ScorePositive(s) == s.num > 0

ScoreBad(s) == 10 * s.num < 0 - 3 * s.den

\* score >= top - 0.1; at equality the rounding of the subtraction decides,
\* and the entry is one the call can return
ScoreNearTop(s, top) == 10 * s.num * top.den >= (10 * top.num - top.den) * s.den

\* the place (from 1) of seq[i] after
\* sort(key=score, reverse=True), which keeps equal scores in list order
Rank(move_scores, seq, i) ==
    1 + Cardinality({j \in 1 .. Len(seq) :
          \/ ScoreGreater(ScoreOf(move_scores, seq[j]),
                          ScoreOf(move_scores, seq[i]))
          \/ /\ ScoreEqual(ScoreOf(move_scores, seq[j]),
                           ScoreOf(move_scores, seq[i]))
             /\ j < i})

\* the positions of sorted[:k], as a set
SortedPrefix(move_scores, seq, k) ==
    {seq[i] : i \in {j \in 1 .. Len(seq) : Rank(move_scores, seq, j) <= k}}

\* sorted[0][1]: the highest score of the list
TopScoreOf(move_scores, seq) ==
    ScoreOf(move_scores,
            CHOOSE pos \in SortedPrefix(move_scores, seq, 1) : TRUE)

\* top_moves: the entries of scored_moves[:max(1, len // 5)] whose score is
\* within 0.1 of the highest
top_moves(move_scores, empties) ==
    LET top == TopScoreOf(move_scores, empties)
    IN  {pos \in SortedPrefix(move_scores, empties,
                              Max(1, Len(empties) \div 5)) :
            ScoreNearTop(ScoreOf(move_scores, pos), top)}

\* (variant) no move counts as a worst move
worst_moves_none(move_scores, empties) == << >>

\* worst_moves (of which the code uses the length and the membership) and
\* available, in the order of empty_positions
worst_moves(move_scores, empties) ==
    SelectSeq(empties, LAMBDA pos : ScoreBad(ScoreOf(move_scores, pos)))

available_moves(move_scores, empties) ==
    SelectSeq(empties, LAMBDA pos : ~ScoreBad(ScoreOf(move_scores, pos)))

\* top_remaining: remaining_scored[:max(1, len // 3)]
top_remaining(move_scores, empties) ==
    LET available == available_moves(move_scores, empties)
    IN  SortedPrefix(move_scores, available, Max(1, Len(available) \div 3))

\* Strategy 3 of LearnedAI.get_move: the positions it can return, {} when
\* it falls through to the centre positions
LearnedMoves(move_scores, b) ==
    LET empty_positions == get_empty_positions(b)
        worst == worst_moves(move_scores, empty_positions)
    IN  IF DOMAIN move_scores = {} THEN {}
        ELSE IF \E pos \in Choices(empty_positions) :
                   ScorePositive(ScoreOf(move_scores, pos))
        THEN top_moves(move_scores, empty_positions)
        ELSE IF /\ Len(worst) > 0
                /\ Len(empty_positions) > Len(worst)
                /\ Len(available_moves(move_scores, empty_positions)) > 0
        THEN top_remaining(move_scores, empty_positions)
        ELSE {}

\* (variant) strategy 2 is left out: no blocking move is looked for
LearnedAI_get_move_no_block(wc, b, player_symbol, move_scores) ==
    LET winning_move == find_winning_move(wc, b, player_symbol)
        learned == LearnedMoves(move_scores, b)
    IN  IF Len(get_empty_positions(b)) = 0
        THEN {Failed("ValueError")}
        ELSE IF winning_move # << >> THEN {Moved(winning_move)}
        ELSE IF learned # {} THEN {Moved(m) : m \in learned}
        ELSE CenterOrRandom(b)

\* LearnedAI.get_move: the results the call can have
LearnedAI_get_move(wc, b, player_symbol, move_scores) ==
    LET winning_move == find_winning_move(wc, b, player_symbol)
        blocking_move == find_blocking_move(wc, b,
                             opponent_symbols_on(b, player_symbol))
        learned == LearnedMoves(move_scores, b)
    IN  IF Len(get_empty_positions(b)) = 0
        THEN {Failed("ValueError")}
        ELSE IF winning_move # << >> THEN {Moved(winning_move)}
        ELSE IF blocking_move # {<< >>}
        THEN {Moved(m) : m \in blocking_move}
        ELSE IF learned # {} THEN {Moved(m) : m \in learned}
        ELSE CenterOrRandom(b)

\* ------------------------------------------------------------------------
\* Training log: what LearnedAI.load_training_data reads and what it leaves
\* in the object. A file is missing, is not JSON, or holds a JSON list of
\* games; a game is a dict with a list under 'moves', a dict without that
\* key, or a value that is no dict; a move entry is a dict whose 'move' and
\* 'reward' keys may be absent.
\* ------------------------------------------------------------------------

\* the value under the key 'move' of a move entry: a JSON list, or no key
MoveList(value) == [kind |-> "list", value |-> value]
NoMove == [kind |-> "absent", value |-> << >>]

\* the value under the key 'reward': a JSON number, a JSON string, or no key
RewardNumber(value) == [kind |-> "number", value |-> value]
RewardString == [kind |-> "string", value |-> 0]
NoReward == [kind |-> "absent", value |-> 0]

\* a move entry of a game
MoveData(move, reward) == [move |-> move, reward |-> reward]

\* a game: a dict with 'moves', a dict without 'moves', a JSON number
GameData(moves) == [kind |-> "dict", moves |-> moves]
GameWithoutMoves == [kind |-> "no_moves", moves |-> << >>]
GameNumber == [kind |-> "number", moves |-> << >>]

\* a file: absent, not JSON, or a JSON list of games
MissingFile == [kind |-> "missing", games |-> << >>]
InvalidFile == [kind |-> "invalid", games |-> << >>]
TrainingFile(games) == [kind |-> "json", games |-> games]

\* LearnedAI.winning_moves, losing_moves and position_frequencies
Statistics(winning_moves, losing_moves, position_frequencies) ==
    [winning_moves |-> winning_moves, losing_moves |-> losing_moves,
     position_frequencies |-> position_frequencies]

\* position_frequencies[move] += 1 on a defaultdict(int)
Counted(position_frequencies, move) ==
    [m \in DOMAIN position_frequencies \cup {move} |->
        IF m \in DOMAIN position_frequencies
        THEN position_frequencies[m] + (IF m = move THEN 1 ELSE 0)
        ELSE 1]

\* the locals of the analysis loop of load_training_data with the
\* position_frequencies of the object, and the exception raised if any
Analysis(raised, all, winning, losing, frequencies) ==
    [raised |-> raised, all_move_positions |-> all,
     winning_move_positions |-> winning, losing_move_positions |-> losing,
     position_frequencies |-> frequencies]

\* the body of the loop over the moves of a game, for the entry move_data
AnalyseMove(a, move_data) ==
    IF move_data.move.kind = "absent"
    THEN [a EXCEPT !.raised = "KeyError"]
    ELSE LET move == move_data.move.value
             read == [a EXCEPT
                        !.all_move_positions = Append(@, move),
                        !.position_frequencies = Counted(@, move)]
             reward == move_data.reward
         IN  IF reward.kind = "string"
             THEN [read EXCEPT !.raised = "TypeError"]
             ELSE IF reward.kind = "number" /\ reward.value > 0
             THEN [read EXCEPT !.winning_move_positions = Append(@, move)]
             ELSE IF reward.kind = "number" /\ reward.value < 0
             THEN [read EXCEPT !.losing_move_positions = Append(@, move)]
             ELSE read

\* the loop over game_data.get('moves', []) from the i-th entry on
RECURSIVE AnalyseMoves(_, _, _)
AnalyseMoves(a, moves, i) ==
    IF a.raised # None \/ i > Len(moves) THEN a
    ELSE AnalyseMoves(AnalyseMove(a, moves[i]), moves, i + 1)

\* the loop over training_data from the g-th game on; game_data.get raises
\* on a value that is no dict
RECURSIVE AnalyseGames(_, _, _)
AnalyseGames(a, games, g) ==
    IF a.raised # None \/ g > Len(games) THEN a
    ELSE IF games[g].kind = "number"
    THEN [a EXCEPT !.raised = "AttributeError"]
    ELSE AnalyseGames(AnalyseMoves(a, games[g].moves, 1), games, g + 1)

\* Counter(positions)[move]
Count(positions, move) ==
    Cardinality({n \in 1 .. Len(positions) : positions[n] = move})

\* (variant) the losses are not subtracted
MoveScore_wins_only(a, move) ==
    Score(Count(a.winning_move_positions, move),
          Count(a.all_move_positions, move))

\* score = (wins - losses) / total of a move of move_counts
MoveScore(a, move) ==
    Score(Count(a.winning_move_positions, move)
            - Count(a.losing_move_positions, move),
          Count(a.all_move_positions, move))

\* move_scores after the loop over move_counts
CalculateScores(move_scores, a) ==
    LET move_counts == {a.all_move_positions[n] :
                           n \in 1 .. Len(a.all_move_positions)}
    IN  [m \in DOMAIN move_scores \cup move_counts |->
            IF m \in move_counts THEN MoveScore(a, m) ELSE move_scores[m]]

\* the analysis of the file: open and json.load raise on a missing file
\* and on a file that is not JSON
Analyse(statistics, file) ==
    LET start == Analysis(None, << >>, << >>, << >>,
                          statistics.position_frequencies)
    IN  IF file.kind = "missing"
        THEN [start EXCEPT !.raised = "FileNotFoundError"]
        ELSE IF file.kind = "invalid"
        THEN [start EXCEPT !.raised = "JSONDecodeError"]
        ELSE AnalyseGames(start, file.games, 1)

\* LearnedAI.load_training_data(file_path) on an object with the given
\* move_scores and statistics, file being what is at file_path: the fields
\* after the call and the exception the except clauses caught (None when
\* the try block ended); the call itself returns None
load_training_data(move_scores, statistics, file) ==
    LET a == Analyse(statistics, file)
    IN  IF a.raised # None
        THEN [move_scores |-> move_scores,
              statistics |-> [statistics EXCEPT
                  !.position_frequencies = a.position_frequencies],
              caught |-> a.raised]
        ELSE [move_scores |-> CalculateScores(move_scores, a),
              statistics |-> Statistics(a.winning_move_positions,
                                        a.losing_move_positions,
                                        a.position_frequencies),
              caught |-> None]

\* ------------------------------------------------------------------------
\* Strategies on a board in memory: what get_move does to the lists of the
\* Board object it is given. The trial placements are followed in the order
\* the code makes them; which placements are made is decided by the cells
\* b of the board as they are when get_move is entered.
\* ------------------------------------------------------------------------

\* faulty variant of Trial: the symbol is placed on the board itself
Trial_in_place(h, root, symbol, p) ==
    [heap |-> Board_make_move_in(h, root, symbol, p).heap, root |-> root]

\* test_board = board.copy(); test_board.make_move(symbol, w, x, y, z):
\* (heap after the two calls, the test board)
Trial(h, root, symbol, p) ==
    LET test_board == Board_copy(h, root)
    IN  [heap |-> Board_make_move_in(test_board.heap, test_board.root,
                                     symbol, p).heap,
         root |-> test_board.root]

\* the lists made since the heap had n lists are dropped with the test
\* board that owns them
Release(h, n) == SubSeq(h, 1, n)

\* the heap after the trial placements of the sequence trials (pairs of a
\* symbol and a position) from the i-th on, each on a test board of its
\* own that is dropped before the next
RECURSIVE TrialPlacements(_, _, _, _)
TrialPlacements(h, root, trials, i) ==
    IF i > Len(trials) THEN h
    ELSE TrialPlacements(
             Release(Trial(h, root, trials[i][1], trials[i][2]).heap, Len(h)),
             root, trials, i + 1)

\* the trial placements of _find_winning_move for symbol: the empty
\* positions up to the first that wins, all of them when none wins
TriedFor(wc, b, symbol) ==
    LET empty_positions == get_empty_positions(b)
        winning_move == find_winning_move(wc, b, symbol)
        last == IF winning_move = << >> THEN Len(empty_positions)
                ELSE CHOOSE n \in 1 .. Len(empty_positions) :
                        empty_positions[n] = winning_move
    IN  [n \in 1 .. last |-> << symbol, empty_positions[n] >>]

\* the trial placements of _find_blocking_move, the opponents tried from
\* the j-th of the list opps on
RECURSIVE BlockingTrials(_, _, _, _)
BlockingTrials(wc, b, opps, j) ==
    IF j > Len(opps) THEN << >>
    ELSE IF find_winning_move(wc, b, opps[j]) # << >>
    THEN TriedFor(wc, b, opps[j])
    ELSE TriedFor(wc, b, opps[j]) \o BlockingTrials(wc, b, opps, j + 1)

\* _find_winning_move followed, when it returns None, by
\* _find_blocking_move with the opponents in the order opps: the move
\* found (<< >> for None) and the trial placements made
FastPath(wc, b, me, opps) ==
    IF find_winning_move(wc, b, me) # << >>
    THEN [move |-> find_winning_move(wc, b, me),
          trials |-> TriedFor(wc, b, me)]
    ELSE [move |-> MinimaxAI_find_blocking_move(wc, b, opps),
          trials |-> TriedFor(wc, b, me) \o BlockingTrials(wc, b, opps, 1)]

\* SimpleAI.get_move and LearnedAI.get_move on the board `root`, the set of
\* opposing symbols iterated in the order opps: the heap after the call
\* (nothing is placed after strategy 2, and nothing on a full board)
HeuristicHeap(wc, h, root, me, opps) ==
    IF Len(get_empty_positions(Cells(h, root))) = 0 THEN h
    ELSE TrialPlacements(h, root,
                         FastPath(wc, Cells(h, root), me, opps).trials, 1)

\* the results SimpleAI.get_move can have when the set of opposing symbols
\* is iterated in the order opps
SimpleAI_get_move_in_order(wc, b, me, opps) ==
    {r \in SimpleAI_get_move(wc, b, me) :
        (r.raised = None /\ FastPath(wc, b, me, opps).move # << >>)
            => r.move = FastPath(wc, b, me, opps).move}

\* the results LearnedAI.get_move can have when the set of opposing symbols
\* is iterated in the order opps
LearnedAI_get_move_in_order(wc, b, me, move_scores, opps) ==
    {r \in LearnedAI_get_move(wc, b, me, move_scores) :
        (r.raised = None /\ FastPath(wc, b, me, opps).move # << >>)
            => r.move = FastPath(wc, b, me, opps).move}

RECURSIVE MinimaxHeap(_, _, _, _, _, _, _, _, _, _)
RECURSIVE MaxLoopHeap(_, _, _, _, _, _, _, _, _, _, _)
RECURSIVE MinLoopHeap(_, _, _, _, _, _, _, _, _, _, _, _)

\* the heap after the maximizing loop of _minimax on the board `root`
\* (cells b) from empty_positions[i] on
MaxLoopHeap(wc, h, root, b, me, depth, opps, empties, i, alpha, beta) ==
    IF i > Len(empties) THEN h
    ELSE LET test == Trial(h, root, me, empties[i])
             test_board == TestBoard(b, me, empties[i])
         IN  IF check_win(wc, test_board, empties[i]) = me
             THEN Release(test.heap, Len(h))
             ELSE LET eval_score == minimax(wc, test_board, me, depth - 1,
                                            FALSE, opps, alpha, beta)
                      after == Release(
                                  MinimaxHeap(wc, test.heap, test.root,
                                      test_board, me, depth - 1, FALSE,
                                      opps, alpha, beta), Len(h))
                  IN  IF beta <= Max(alpha, eval_score) THEN after
                      ELSE MaxLoopHeap(wc, after, root, b, me, depth, opps,
                               empties, i + 1, Max(alpha, eval_score), beta)

\* the heap after the minimizing loops of _minimax on the board `root`
\* (cells b) from empty_positions[i] and opponent_symbols[j] on
MinLoopHeap(wc, h, root, b, me, depth, opps, empties, i, j, alpha, beta) ==
    IF i > Len(empties) THEN h
    ELSE IF j > Len(opps)
    THEN MinLoopHeap(wc, h, root, b, me, depth, opps, empties, i + 1, 1,
                     alpha, beta)
    ELSE LET test == Trial(h, root, opps[j], empties[i])
             test_board == TestBoard(b, opps[j], empties[i])
         IN  IF check_win(wc, test_board, empties[i]) = opps[j]
             THEN Release(test.heap, Len(h))
             ELSE LET eval_score == minimax(wc, test_board, me, depth - 1,
                                            TRUE, opps, alpha, beta)
                      after == Release(
                                  MinimaxHeap(wc, test.heap, test.root,
                                      test_board, me, depth - 1, TRUE,
                                      opps, alpha, beta), Len(h))
                  IN  IF Min(beta, eval_score) <= alpha
                      THEN MinLoopHeap(wc, after, root, b, me, depth, opps,
                               empties, i + 1, 1, alpha,
                               Min(beta, eval_score))
                      ELSE MinLoopHeap(wc, after, root, b, me, depth, opps,
                               empties, i, j + 1, alpha,
                               Min(beta, eval_score))

\* the heap after _minimax on the board `root` (cells b)
MinimaxHeap(wc, h, root, b, me, depth, maximizing, opps, alpha, beta) ==
    IF depth = 0 THEN h
    ELSE IF check_win_all_positions(wc, b) \notin {None, ""} THEN h
    ELSE IF Len(get_empty_positions(b)) = 0 THEN h
    ELSE IF maximizing
    THEN MaxLoopHeap(wc, h, root, b, me, depth, opps,
                     get_empty_positions(b), 1, alpha, beta)
    ELSE MinLoopHeap(wc, h, root, b, me, depth, opps,
                     get_empty_positions(b), 1, 1, alpha, beta)

\* the heap after the loop over empty_positions in MinimaxAI.get_move from
\* position i on
RECURSIVE BestMoveHeap(_, _, _, _, _, _, _, _, _)
BestMoveHeap(wc, h, root, b, me, max_depth, opps, empties, i) ==
    IF i > Len(empties) THEN h
    ELSE LET test == Trial(h, root, me, empties[i])
             test_board == TestBoard(b, me, empties[i])
         IN  IF check_win(wc, test_board, empties[i]) = me
             THEN Release(test.heap, Len(h))
             ELSE BestMoveHeap(wc,
                      Release(MinimaxHeap(wc, test.heap, test.root,
                                  test_board, me, max_depth - 1, FALSE,
                                  opps, 0 - inf, inf), Len(h)),
                      root, b, me, max_depth, opps, empties, i + 1)

\* MinimaxAI.get_move on the board `root` with opponent_symbols the list
\* opps: the heap after the call
MinimaxAI_get_move_heap(wc, h, root, me, max_depth, opps) ==
    LET b == Cells(h, root)
        tried == TrialPlacements(h, root, FastPath(wc, b, me, opps).trials, 1)
    IN  IF Len(get_empty_positions(b)) = 0 THEN h
        ELSE IF FastPath(wc, b, me, opps).move # << >> THEN tried
        ELSE BestMoveHeap(wc, tried, root, b, me, max_depth, opps,
                          get_empty_positions(b), 1)

\* ------------------------------------------------------------------------
\* Game: the handlers as functions of the object's fields
\* ------------------------------------------------------------------------

\* `self.winner is None`; otherwise winner is the 1-based roster position
\* of the Player object self.winner refers to
NoPlayer == 0

\* what a handler hands back to its caller: a returned value, or an
\* exception that leaves the handler
Return(ok, err) == [raised |-> FALSE, ok |-> ok, err |-> err]
Raise(exc) == [raised |-> TRUE, ok |-> FALSE, err |-> exc]

\* Game.__init__. A Player is modelled by the two fields the Game reads,
\* player_id and symbol.
Game_init ==
    [board |-> Board_init,
     state |-> WAITING,
     players |-> << >>,
     player_symbols |-> << >>,
     current_player_index |-> 0,
     move_history |-> << >>,
     winner |-> NoPlayer,
     winning_line |-> << >>]

\* len(symbol) for the symbols the model uses
SymbolLen(symbol) == Len(symbol)

\* faulty variant of symbol_ok: the length limit is off by one (len(symbol) >= 2)
symbol_ok_short(symbol) == ~(symbol = "" \/ SymbolLen(symbol) >= 2)

\* the validation `not symbol or len(symbol) > 2` of add_player, negated
symbol_ok(symbol) == ~(symbol = "" \/ SymbolLen(symbol) > 2)

\* faulty variant of symbol_taken: the symbol is compared with the last player only
symbol_taken_last_only(players, symbol) ==
    Len(players) > 0 /\ players[Len(players)].symbol = symbol

\* `symbol in [p.symbol for p in self.players]`
symbol_taken(players, symbol) ==
    \E i \in 1 .. Len(players) : players[i].symbol = symbol

\* self.player_symbols[player_id] = symbol
DictSet(d, key, value) ==
    [k \in DOMAIN d \cup {key} |-> IF k = key THEN value ELSE d[k]]

\* Game.add_player
add_player(self, player_id, symbol) ==
    IF self.state # WAITING THEN [self |-> self, ret |-> Return(FALSE, None)]
    ELSE IF Len(self.players) >= MAX_PLAYERS
    THEN [self |-> self, ret |-> Return(FALSE, None)]
    ELSE IF symbol_taken(self.players, symbol)
    THEN [self |-> self, ret |-> Return(FALSE, None)]
    ELSE IF ~symbol_ok(symbol)
    THEN [self |-> self, ret |-> Return(FALSE, None)]
    ELSE [self |-> [self EXCEPT
                      !.players = Append(@, [player_id |-> player_id,
                                             symbol |-> symbol]),
                      !.player_symbols = DictSet(@, player_id, symbol)],
          ret |-> Return(TRUE, None)]

\* faulty variant of start_game_allowed: a finished game may be started again
start_game_allowed_restart(self) ==
    self.state # PLAYING /\ ~(Len(self.players) < MIN_PLAYERS)

\* faulty variant of start_game_allowed: the player minimum is compared with <=
start_game_allowed_strict(self) ==
    self.state = WAITING /\ ~(Len(self.players) <= MIN_PLAYERS)

\* the two guards of start_game
start_game_allowed(self) ==
    self.state = WAITING /\ ~(Len(self.players) < MIN_PLAYERS)

\* Game.start_game
start_game(self) ==
    IF ~start_game_allowed(self)
    THEN [self |-> self, ret |-> Return(FALSE, None)]
    ELSE [self |-> [self EXCEPT
                      !.state = PLAYING,
                      !.current_player_index = 0,
                      !.board = Board_init,
                      !.move_history = << >>,
                      !.winner = NoPlayer,
                      !.winning_line = << >>],
          ret |-> Return(TRUE, None)]

\* Game.get_current_player: roster position (1-based) or NoPlayer
get_current_player(self) ==
    IF self.state # PLAYING THEN NoPlayer
    ELSE IF Len(self.players) = 0 THEN NoPlayer
    ELSE self.current_player_index + 1

\* faulty variant of next_player_index: the modulus is taken one too small
next_player_index_short(index, n) == (index + 1) % (n - 1)

\* `(self.current_player_index + 1) % len(self.players)`
next_player_index(index, n) == (index + 1) % n

\* faulty variant of RejectMove: the turn is passed on before the call returns
RejectMove_pass_turn(self, reason) ==
    [self |-> [self EXCEPT !.current_player_index =
                  IF Len(self.players) = 0 THEN @
                  ELSE next_player_index(@, Len(self.players))],
     ret |-> Return(FALSE, reason)]

\* `return False, reason` of make_move
RejectMove(self, reason) == [self |-> self, ret |-> Return(FALSE, reason)]

\* faulty variant of is_turn_of: anybody may move
is_turn_of_anybody(self, player_id) == TRUE

\* the turn check of make_move, negated
is_turn_of(self, player_id) ==
    LET current_player == get_current_player(self)
    IN  ~(current_player = NoPlayer
          \/ self.players[current_player].player_id # player_id)

\* faulty variant of FindWinner: the loop compares with the first roster
\* player only
FindWinner_first_only(players, winner_symbol) ==
    IF Len(players) > 0 /\ players[1].symbol = winner_symbol
    THEN 1 ELSE NoPlayer

\* the `for player in self.players` loop of make_move: first roster
\* position whose symbol is winner_symbol, NoPlayer when the loop finds none
FindWinner(players, winner_symbol) ==
    LET hits == SelectSeq([i \in 1 .. Len(players) |-> i],
                          LAMBDA i : players[i].symbol = winner_symbol)
    IN  IF Len(hits) > 0 THEN hits[1] ELSE NoPlayer

\* faulty variant of SettleMove: a win is recorded but the game goes on
SettleMove_plays_on(moved, winner_symbol) ==
    IF Len(get_empty_positions(moved.board)) = 0
    THEN [self |-> [moved EXCEPT !.state = FINISHED],
          ret |-> Return(TRUE, None)]
    ELSE [self |-> [moved EXCEPT
             !.winner = IF winner_symbol # None
                        THEN FindWinner(moved.players, winner_symbol) ELSE @,
             !.current_player_index = (@ + 1) % Len(moved.players)],
          ret |-> Return(TRUE, None)]

\* faulty variant of SettleMove: a full board without a line does not end
\* the game
SettleMove_draw_plays_on(moved, winner_symbol) ==
    IF winner_symbol # None /\ winner_symbol # ""
    THEN [self |-> [moved EXCEPT
             !.winner = IF FindWinner(moved.players, winner_symbol) # NoPlayer
                        THEN FindWinner(moved.players, winner_symbol) ELSE @,
             !.winning_line =
                IF FindWinner(moved.players, winner_symbol) # NoPlayer
                THEN get_winning_line(get_win_checker, moved.board,
                                      winner_symbol)
                ELSE @,
             !.state = FINISHED],
          ret |-> Return(TRUE, None)]
    ELSE [self |-> [moved EXCEPT !.current_player_index =
             next_player_index(@, Len(moved.players))],
          ret |-> Return(TRUE, None)]

\* make_move from "Check for win" on: moved is the game with the symbol
\* placed and the move recorded, winner_symbol the result of check_win
SettleMove(moved, winner_symbol) ==
    IF winner_symbol # None /\ winner_symbol # ""
    THEN [self |-> [moved EXCEPT
             !.winner = IF FindWinner(moved.players, winner_symbol) # NoPlayer
                        THEN FindWinner(moved.players, winner_symbol) ELSE @,
             !.winning_line =
                IF FindWinner(moved.players, winner_symbol) # NoPlayer
                THEN get_winning_line(get_win_checker, moved.board,
                                      winner_symbol)
                ELSE @,
             !.state = FINISHED],
          ret |-> Return(TRUE, None)]
    ELSE IF Len(get_empty_positions(moved.board)) = 0
    THEN [self |-> [moved EXCEPT !.state = FINISHED],
          ret |-> Return(TRUE, None)]
    ELSE [self |-> [moved EXCEPT !.current_player_index =
             next_player_index(@, Len(moved.players))],
          ret |-> Return(TRUE, None)]

\* make_move from "Make the move" on: placed is what Board.make_move did
PlaceMove(self, player_id, pos, placed) ==
    IF ~placed.ret THEN RejectMove(self, "Failed to make move")
    ELSE SettleMove([self EXCEPT
                       !.board = placed.board,
                       !.move_history = Append(@, << player_id, pos >>)],
                    check_win(get_win_checker, placed.board, pos))

\* Game.make_move
make_move(self, player_id, pos) ==
    IF self.state # PLAYING
    THEN RejectMove(self, "Game is not in playing state")
    ELSE IF ~is_turn_of(self, player_id)
    THEN RejectMove(self, "Not your turn")
    ELSE IF ~is_valid_move(self.board, pos)
    THEN RejectMove(self, "Invalid move position")
    ELSE IF player_id \notin DOMAIN self.player_symbols
    THEN [self |-> self, ret |-> Raise("KeyError")]
    ELSE PlaceMove(self, player_id, pos,
            Board_make_move(self.board, self.player_symbols[player_id], pos))

\* ------------------------------------------------------------------------
\* Inputs
\* ------------------------------------------------------------------------

\* number of board cells the coordinates passed to make_move range over
NumOpen == 3

\* player identifiers and symbols offered to add_player; the last symbol
\* has two characters
PlayerIds == << "p1", "p2", "p3", "p4", "p5" >>
Symbols == << "X", "O", "A", "B", "Cc" >>

\* identifiers make_move is called with
CallerIds == {PlayerIds[i] : i \in 1 .. Len(PlayerIds)}

\* identifiers offered for each roster position: the second registration
\* may use the first one's identifier again
IdMenu == << {"p1"}, {"p2", "p1"}, {"p3"}, {"p4"}, {"p5"} >>

\* symbols add_player has to refuse: empty, longer than two characters
BadSymbols == {"", "XYZ"}

\* a complete game of four players X, O, A, B (move k is made by player
\* k mod 4) that fills the board without completing a line; it opens with
\* X on (0,1,1,1) and (1,1,1,1)
DrawLog ==
    <<
       <<0, 1, 1, 1>>, <<2, 2, 2, 0>>, <<1, 2, 2, 0>>, <<2, 0, 2, 2>>,
       <<1, 1, 1, 1>>, <<1, 2, 2, 1>>, <<2, 1, 2, 0>>, <<2, 2, 2, 1>>,
       <<0, 0, 2, 1>>, <<0, 2, 1, 1>>, <<0, 2, 2, 2>>, <<2, 1, 1, 0>>,
       <<2, 0, 0, 2>>, <<1, 0, 1, 2>>, <<2, 2, 2, 2>>, <<0, 2, 2, 1>>,
       <<1, 0, 0, 2>>, <<0, 1, 0, 0>>, <<1, 1, 0, 0>>, <<1, 2, 1, 2>>,
       <<2, 1, 0, 0>>, <<1, 1, 2, 1>>, <<2, 0, 2, 0>>, <<0, 2, 0, 2>>,
       <<0, 1, 1, 2>>, <<0, 2, 1, 2>>, <<1, 1, 1, 2>>, <<2, 0, 1, 1>>,
       <<1, 2, 2, 2>>, <<2, 0, 1, 0>>, <<1, 1, 0, 2>>, <<0, 2, 0, 0>>,
       <<0, 1, 0, 2>>, <<2, 2, 1, 0>>, <<1, 0, 0, 1>>, <<0, 1, 0, 1>>,
       <<2, 2, 1, 1>>, <<2, 1, 0, 1>>, <<2, 0, 2, 1>>, <<2, 1, 0, 2>>,
       <<2, 2, 1, 2>>, <<1, 0, 2, 0>>, <<0, 1, 2, 0>>, <<0, 2, 1, 0>>,
       <<0, 0, 0, 0>>, <<0, 0, 2, 0>>, <<1, 0, 2, 2>>, <<0, 1, 2, 2>>,
       <<2, 0, 0, 1>>, <<0, 0, 1, 0>>, <<0, 1, 1, 0>>, <<1, 1, 2, 2>>,
       <<0, 0, 0, 1>>, <<2, 1, 1, 2>>, <<0, 0, 1, 1>>, <<2, 1, 2, 1>>,
       <<1, 1, 2, 0>>, <<1, 1, 0, 1>>, <<0, 0, 1, 2>>, <<1, 0, 2, 1>>,
       <<1, 2, 0, 1>>, <<0, 0, 0, 2>>, <<1, 2, 0, 0>>, <<1, 0, 1, 1>>,
       <<2, 0, 1, 2>>, <<1, 2, 1, 0>>, <<0, 1, 2, 1>>, <<0, 0, 2, 2>>,
       <<1, 2, 0, 2>>, <<0, 2, 0, 1>>, <<2, 0, 0, 0>>, <<1, 1, 1, 0>>,
       <<2, 2, 0, 0>>, <<0, 2, 2, 0>>, <<2, 1, 2, 2>>, <<1, 0, 0, 0>>,
       <<2, 2, 0, 2>>, <<2, 1, 1, 1>>, <<1, 2, 1, 1>>, <<2, 2, 0, 1>>,
       <<1, 0, 1, 0>>
    >>

\* the calls that play DrawLog on a new Game
Script ==
    [i \in 1 .. 4 |-> [op |-> "add_player", player_id |-> PlayerIds[i],
                       symbol |-> Symbols[i], pos |-> << >>]]
    \o << [op |-> "start_game", player_id |-> "", symbol |-> "",
           pos |-> << >>] >>
    \o [k \in 1 .. Len(DrawLog) |->
           [op |-> "make_move", player_id |-> PlayerIds[((k - 1) % 4) + 1],
            symbol |-> "", pos |-> DrawLog[k]]]

\* a game in which the second add_player call reuses the first identifier:
\* the roster of Script with "p1" twice, started, and one round played
ReuseLog == << DrawLog[1], DrawLog[5], DrawLog[3], DrawLog[4] >>
ReuseIds == << "p1", "p1", "p3", "p4" >>
ReuseScript ==
    [i \in 1 .. 4 |-> [op |-> "add_player", player_id |-> ReuseIds[i],
                       symbol |-> Symbols[i], pos |-> << >>]]
    \o << [op |-> "start_game", player_id |-> "", symbol |-> "",
           pos |-> << >>] >>
    \o [k \in 1 .. Len(ReuseLog) |->
           [op |-> "make_move", player_id |-> ReuseIds[k],
            symbol |-> "", pos |-> ReuseLog[k]]]

\* one call applied to a game
ApplyCall(g, call) ==
    IF call.op = "add_player"
    THEN add_player(g, call.player_id, call.symbol).self
    ELSE IF call.op = "start_game" THEN start_game(g).self
    ELSE make_move(g, call.player_id, call.pos).self

\* the game after calls[i..j] has been applied to g, call by call
RECURSIVE RunCalls(_, _, _, _)
RunCalls(calls, g, i, j) ==
    IF i > j THEN g
    ELSE IF i = j THEN ApplyCall(g, calls[i])
    ELSE LET mid == (i + j) \div 2
             half == RunCalls(calls, g, i, mid)
         IN  IF half.state \in {WAITING, PLAYING, FINISHED}
             THEN RunCalls(calls, half, mid + 1, j)
             ELSE half

\* the coordinates offered to make_move: the last NumOpen cells of DrawLog,
\* the two ends of the line (0,1,1,1), (1,1,1,1), (2,1,1,1), and two
\* coordinates outside the board
OpenCells == {DrawLog[k] : k \in (Len(DrawLog) - NumOpen + 1) .. Len(DrawLog)}
MoveInputs ==
    OpenCells \cup {DrawLog[1], << 2, 1, 1, 1 >>,
                    << 5, 0, 0, 0 >>, << 0, 0, 0, -1 >>}

\* the states a run starts from: a new Game; the game after the first two
\* rounds of DrawLog; the game with only OpenCells left to play; the game
\* after ReuseScript
StartPoints == {0, 5 + 8, 5 + Len(DrawLog) - NumOpen}
StartGames ==
    {RunCalls(Script, Game_init, 1, n) : n \in StartPoints}
    \cup {RunCalls(ReuseScript, Game_init, 1, Len(ReuseScript))}

\* ------------------------------------------------------------------------
\* State machine
\* ------------------------------------------------------------------------

VARIABLES board, state, players, player_symbols, current_player_index,
          move_history, winner, winning_line, op, ret

\* Board objects used on their own: the heap of lists, the board under
\* test, the copies taken of it, and the last Board call with its result
VARIABLES heap, orig, copies, bcall

\* WinChecker objects used on their own: the objects constructed, the board
\* they are asked about, and the last WinChecker call with its result
VARIABLES checkers, wboard, wcall

\* Strategies used on their own: the board given to get_move, the strategy
\* object constructed, and the last call on it with its result
VARIABLES given, strategy, acall

\* LearnedAI objects loading a training log: what is in the file at the
\* path last given, and the winning_moves, losing_moves and
\* position_frequencies of the object
VARIABLES training_data, statistics

\* the search of a MinimaxAI: the last call of _minimax or of get_move with
\* what it returned and how far it looked
VARIABLES search

gvars == << board, state, players, player_symbols, current_player_index,
            move_history, winner, winning_line >>
bvars == << heap, orig, copies, bcall >>
cvars == << checkers, wboard, wcall >>
lvars == << training_data, statistics, search >>
avars == << given, strategy, acall, training_data, statistics, search >>
vars == << board, state, players, player_symbols, current_player_index,
           move_history, winner, winning_line, op, ret,
           heap, orig, copies, bcall, checkers, wboard, wcall,
           given, strategy, acall, training_data, statistics, search >>

\* the Game object as a record of its fields
Self ==
    [board |-> board,
     state |-> state,
     players |-> players,
     player_symbols |-> player_symbols,
     current_player_index |-> current_player_index,
     move_history |-> move_history,
     winner |-> winner,
     winning_line |-> winning_line]

\* the fields after a handler ran, and what it returned
Becomes(name, r) ==
    /\ board' = r.self.board
    /\ state' = r.self.state
    /\ players' = r.self.players
    /\ player_symbols' = r.self.player_symbols
    /\ current_player_index' = r.self.current_player_index
    /\ move_history' = r.self.move_history
    /\ winner' = r.self.winner
    /\ winning_line' = r.self.winning_line
    /\ op' = name
    /\ ret' = r.ret
    /\ UNCHANGED << bvars, cvars, avars >>

\* a strategy object: its class, and the fields get_move reads
StrategyObject(ai, player_symbol, max_depth, move_scores) ==
    [ai |-> ai, player_symbol |-> player_symbol, max_depth |-> max_depth,
     move_scores |-> move_scores]

\* a call on the strategy object: opponent_symbols is None when the
\* argument is left out
StrategyCall(name, opponent_symbols, r) ==
    [op |-> name, opponent_symbols |-> opponent_symbols,
     raised |-> r.raised, move |-> r.move]

\* a call of _minimax or get_move on a MinimaxAI: the arguments, the value
\* returned (None by get_move, which returns a cell) and the largest number
\* of placements made to reach a board looked at
SearchCall(name, depth, maximizing, opponent_symbols, value, plies) ==
    [op |-> name, depth |-> depth, maximizing |-> maximizing,
     opponent_symbols |-> opponent_symbols, value |-> value,
     plies |-> plies]

NoSearch == SearchCall("none", 0, FALSE, << >>, None, 0)

\* no strategy constructed
NoStrategy ==
    /\ strategy = StrategyObject("none", None, 0, << >>)
    /\ acall = StrategyCall("none", None, Moved(<< >>))
    /\ training_data = MissingFile
    /\ statistics = Statistics(<< >>, << >>, << >>)
    /\ search = NoSearch

\* no strategy constructed, an empty board to give
StrategyInit ==
    /\ given = Board_init
    /\ NoStrategy

\* no WinChecker() constructed, an empty board to ask about
CheckerInit ==
    /\ checkers = << >>
    /\ wboard = Board_init
    /\ wcall = [op |-> "none", checker |-> 0, pos |-> << >>, ret |-> None]

\* one Board() and no call made on it yet
BoardInit ==
    /\ heap = Board_new(<< >>).heap
    /\ orig = Board_new(<< >>).root
    /\ copies = << >>
    /\ bcall = [op |-> "Board", target |-> Board_new(<< >>).root,
                pos |-> << >>, value |-> None,
                ret |-> TRUE, raised |-> None]

Init ==
    /\ BoardInit
    /\ CheckerInit
    /\ StrategyInit
    /\ \E g \in StartGames :
          /\ board = g.board
          /\ state = g.state
          /\ players = g.players
          /\ player_symbols = g.player_symbols
          /\ current_player_index = g.current_player_index
          /\ move_history = g.move_history
          /\ winner = g.winner
          /\ winning_line = g.winning_line
          /\ op = "new"
          /\ ret = Return(TRUE, None)

\* the identifier and symbol choices of the next add_player call, by the
\* roster position it would fill
NextSlot == IF Len(players) < Len(IdMenu) THEN Len(players) + 1
            ELSE Len(IdMenu)
IdInputs == IdMenu[NextSlot]
SymbolInputs == {Symbols[NextSlot], Symbols[1]} \cup BadSymbols

AddPlayer ==
    \E player_id \in IdInputs, symbol \in SymbolInputs :
        Becomes("add_player", add_player(Self, player_id, symbol))

StartGame ==
    \E r \in {start_game(Self)} : Becomes("start_game", r)

MakeMove ==
    \E player_id \in CallerIds, pos \in MoveInputs :
        \E r \in {make_move(Self, player_id, pos)} : Becomes("make_move", r)

Next == AddPlayer \/ StartGame \/ MakeMove

Spec == Init /\ [][Next]_vars

\* ------------------------------------------------------------------------
\* State machine of Board objects used on their own
\* ------------------------------------------------------------------------

\* copies taken of the board under test
MaxCopies == 1

\* coordinates and values the Board calls are made with: two cells that
\* differ in one axis, two coordinates outside the board
BoardCells == {<< 0, 0, 0, 0 >>, << 0, 0, 1, 0 >>}
BoardCoords == BoardCells \cup {<< 3, 0, 0, 0 >>, << 0, 0, 0, -1 >>}
BoardValues == {None, "X"}

\* the boards a call can be made on
Targets == {orig} \cup {copies[i] : i \in 1 .. Len(copies)}

\* a new Game and one Board()
BoardStart ==
    /\ BoardInit
    /\ CheckerInit
    /\ StrategyInit
    /\ board = Game_init.board
    /\ state = Game_init.state
    /\ players = Game_init.players
    /\ player_symbols = Game_init.player_symbols
    /\ current_player_index = Game_init.current_player_index
    /\ move_history = Game_init.move_history
    /\ winner = Game_init.winner
    /\ winning_line = Game_init.winning_line
    /\ op = "new"
    /\ ret = Return(TRUE, None)

\* the Game fields and the last Game call stay as they are
GameIdle == UNCHANGED << gvars, op, ret >>

BoardGet ==
    \E target \in Targets, pos \in BoardCoords :
        \E r \in {Board_get(heap, target, pos)} :
            /\ bcall' = [op |-> "get", target |-> target, pos |-> pos,
                         value |-> r.value, ret |-> TRUE,
                         raised |-> r.raised]
            /\ UNCHANGED << heap, orig, copies >>
            /\ GameIdle /\ UNCHANGED << cvars, avars >>

BoardSet ==
    \E target \in Targets, pos \in BoardCoords, value \in BoardValues :
        \E r \in {Board_set(heap, target, pos, value)} :
            /\ heap' = r.heap
            /\ bcall' = [op |-> "set", target |-> target, pos |-> pos,
                         value |-> value, ret |-> TRUE, raised |-> r.raised]
            /\ UNCHANGED << orig, copies >>
            /\ GameIdle /\ UNCHANGED << cvars, avars >>

BoardMakeMove ==
    \E target \in Targets, pos \in BoardCoords,
       player_symbol \in BoardValues \ {None} :
        \E r \in {Board_make_move_in(heap, target, player_symbol, pos)} :
            /\ heap' = r.heap
            /\ bcall' = [op |-> "make_move", target |-> target, pos |-> pos,
                         value |-> player_symbol, ret |-> r.ret,
                         raised |-> None]
            /\ UNCHANGED << orig, copies >>
            /\ GameIdle /\ UNCHANGED << cvars, avars >>

BoardCopy ==
    /\ Len(copies) < MaxCopies
    /\ \E r \in {get_board_copy(heap, orig)} :
          /\ heap' = r.heap
          /\ copies' = Append(copies, r.root)
          /\ bcall' = [op |-> "copy", target |-> orig, pos |-> << >>,
                       value |-> None, ret |-> TRUE, raised |-> None]
          /\ UNCHANGED orig
          /\ GameIdle /\ UNCHANGED << cvars, avars >>

BoardNext == BoardGet \/ BoardSet \/ BoardMakeMove \/ BoardCopy

BoardSpec == BoardStart /\ [][BoardNext]_vars

\* ------------------------------------------------------------------------
\* State machine of WinChecker objects used on their own
\* ------------------------------------------------------------------------

\* WinChecker() constructions
MaxCheckers == 2

\* three lines of the board: two that cross in the centre cell and one that
\* meets neither
LineA == << << 0, 1, 1, 1 >>, << 1, 1, 1, 1 >>, << 2, 1, 1, 1 >> >>
LineB == << << 0, 0, 0, 0 >>, << 1, 1, 1, 1 >>, << 2, 2, 2, 2 >> >>
LineC == << << 0, 2, 0, 0 >>, << 1, 2, 0, 0 >>, << 2, 2, 0, 0 >> >>
CellValues == {None, "X", "O"}

\* the boards the WinChecker is asked about: any values on LineA, one value
\* on the two ends of LineB, None or O along LineC, None elsewhere
CheckerBoards ==
    {[p \in Coords |->
         IF p \in {LineA[s] : s \in 1 .. 3} THEN f[p]
         ELSE IF p \in {LineB[1], LineB[3]} THEN u
         ELSE IF p \in {LineC[s] : s \in 1 .. 3} THEN v
         ELSE None] :
        f \in [{LineA[s] : s \in 1 .. 3} -> CellValues],
        u \in CellValues, v \in {None, "O"}}

\* the coordinates passed as the last move: on both crossing lines, on one
\* of them, on the third line, on none of the three
CheckCoords ==
    {LineA[2], LineA[1], LineB[3], LineC[2], << 0, 0, 0, 2 >>}

\* a new Game, one Board(), and a board to ask about
CheckerStart ==
    /\ BoardInit
    /\ StrategyInit
    /\ checkers = << >>
    /\ wboard \in CheckerBoards
    /\ wcall = [op |-> "none", checker |-> 0, pos |-> << >>, ret |-> None]
    /\ board = Game_init.board
    /\ state = Game_init.state
    /\ players = Game_init.players
    /\ player_symbols = Game_init.player_symbols
    /\ current_player_index = Game_init.current_player_index
    /\ move_history = Game_init.move_history
    /\ winner = Game_init.winner
    /\ winning_line = Game_init.winning_line
    /\ op = "new"
    /\ ret = Return(TRUE, None)

\* the Game and the Board objects stay as they are
OthersIdle == GameIdle /\ UNCHANGED << bvars, avars >>

Construct ==
    /\ Len(checkers) < MaxCheckers
    /\ checkers' = Append(checkers, WinChecker_init)
    /\ wcall' = [op |-> "WinChecker", checker |-> Len(checkers) + 1,
                 pos |-> << >>, ret |-> None]
    /\ UNCHANGED wboard
    /\ OthersIdle

CheckWin ==
    \E i \in 1 .. Len(checkers), last_pos \in CheckCoords :
        /\ wcall' = [op |-> "check_win", checker |-> i, pos |-> last_pos,
                     ret |-> check_win(checkers[i], wboard, last_pos)]
        /\ UNCHANGED << checkers, wboard >>
        /\ OthersIdle

CheckWinAllPositions ==
    \E i \in 1 .. Len(checkers) :
        /\ wcall' = [op |-> "check_win_all_positions", checker |-> i,
                     pos |-> << >>,
                     ret |-> check_win_all_positions(checkers[i], wboard)]
        /\ UNCHANGED << checkers, wboard >>
        /\ OthersIdle

CheckerNext == Construct \/ CheckWin \/ CheckWinAllPositions

CheckerSpec == CheckerStart /\ [][CheckerNext]_vars

\* ------------------------------------------------------------------------
\* State machine of the strategies used on their own: a SimpleAI, a
\* MinimaxAI or a LearnedAI is constructed and its get_move is called on a
\* given board
\* ------------------------------------------------------------------------

\* the most empty cells of a nearly full board, and the largest max_depth
MaxEmpty == 3
MaxDepth == 2

\* the board after the first k moves of DrawLog, the seats playing in turn
\* with the symbols X, O, A, B
DrawBoard(k) ==
    [p \in Coords |->
        IF \E i \in 1 .. k : DrawLog[i] = p
        THEN Symbols[(((CHOOSE i \in 1 .. k : DrawLog[i] = p) - 1) % 4) + 1]
        ELSE None]

\* cells of the full board such that no symbol completes a line by taking
\* one of them when they are empty
QuietCells ==
    << << 0, 0, 0, 1 >>, << 0, 0, 1, 2 >>, << 0, 0, 2, 1 >>,
       << 0, 1, 2, 1 >> >>

\* the full board with the first e of QuietCells emptied
QuietBoard(e) ==
    [p \in Coords |->
        IF \E i \in 1 .. e : QuietCells[i] = p THEN None
        ELSE DrawBoard(Len(DrawLog))[p]]

\* a cell of the full board that completes a line of A when emptied and
\* taken by A
ThreatCell == << 0, 1, 0, 0 >>

\* the full board with the first of QuietCells and ThreatCell emptied: one
\* symbol is one move from a line, and a second cell is empty
ThreatBoard ==
    [p \in Coords |->
        IF p = QuietCells[1] \/ p = ThreatCell THEN None
        ELSE DrawBoard(Len(DrawLog))[p]]

\* nearly full boards: up to MaxEmpty cells empty and no line one move from
\* completion (e = 0 is the full board), and the board before the last
\* move of DrawLog, where O is one move from a line, and ThreatBoard
DenseBoards ==
    {QuietBoard(e) : e \in 0 .. MaxEmpty}
        \cup {DrawBoard(Len(DrawLog) - 1), ThreatBoard}

\* the board with the given cells set
Place(cells) ==
    [p \in Coords |->
        IF \E i \in 1 .. Len(cells) : cells[i][1] = p
        THEN (CHOOSE c \in Choices(cells) : c[1] = p)[2]
        ELSE None]

\* boards with few cells taken: empty; X one move from LineA and from
\* LineB; X and O both one move from a line; O and A both one move from a
\* line; LineA taken by X, X and O
SparseBoards ==
    { Board_init,
      Place(<< << LineA[1], "X" >>, << LineA[2], "X" >>,
               << LineB[1], "X" >>, << LineC[1], "O" >> >>),
      Place(<< << LineA[1], "X" >>, << LineA[2], "X" >>,
               << LineC[1], "O" >>, << LineC[3], "O" >> >>),
      Place(<< << LineB[1], "X" >>, << LineA[2], "A" >>,
               << LineA[3], "A" >>, << LineC[1], "O" >>,
               << LineC[3], "O" >> >>),
      Place(<< << LineA[1], "X" >>, << LineA[2], "X" >>,
               << LineA[3], "O" >> >>) }

GivenBoards == DenseBoards \cup SparseBoards

\* the symbols a strategy plays as
StrategySymbols == {"X", "O"}

\* opponent_symbols given by the caller of MinimaxAI.get_move
GivenOpponents == {<< >>, << "O", "X" >>}

\* score tables: none loaded; good scores, the best of them on a cell that
\* the sparse boards have taken; bad scores; scores neither good nor bad
ScoreTables ==
    { << >>,
      (LineA[1] :> Score(1, 1)) @@ (LineA[3] :> Score(9, 10))
         @@ (LineC[2] :> Score(4, 5)) @@ (LineB[3] :> Score(1, 2))
         @@ (LineB[1] :> Score(-1, 1)) @@ (QuietCells[2] :> Score(1, 3)),
      (LineA[3] :> Score(-1, 1)) @@ (LineC[2] :> Score(-1, 2))
         @@ (LineB[2] :> Score(-3, 10)) @@ (QuietCells[1] :> Score(-1, 1)),
      (LineB[2] :> Score(-1, 10)) @@ (LineA[3] :> Score(0, 3)) }

StrategyStart ==
    /\ BoardInit
    /\ CheckerInit
    /\ given \in GivenBoards
    /\ NoStrategy
    /\ board = Game_init.board
    /\ state = Game_init.state
    /\ players = Game_init.players
    /\ player_symbols = Game_init.player_symbols
    /\ current_player_index = Game_init.current_player_index
    /\ move_history = Game_init.move_history
    /\ winner = Game_init.winner
    /\ winning_line = Game_init.winning_line
    /\ op = "new"
    /\ ret = Return(TRUE, None)

\* the Game, the Board and the WinChecker objects stay as they are; the
\* board given is not replaced
RestIdle == GameIdle /\ UNCHANGED << bvars, cvars, given, lvars >>

\* a constructor returned
Constructed ==
    /\ acall' = StrategyCall("__init__", None, Moved(<< >>))
    /\ RestIdle

\* get_move returned or raised r
Called(opponent_symbols, r) ==
    /\ acall' = StrategyCall("get_move", opponent_symbols, r)
    /\ UNCHANGED strategy
    /\ RestIdle

\* SimpleAI(symbol)
NewSimpleAI ==
    \E symbol \in StrategySymbols :
        /\ strategy' = StrategyObject("SimpleAI", symbol, 0, << >>)
        /\ Constructed

\* MinimaxAI(symbol, max_depth=d)
NewMinimaxAI ==
    \E symbol \in StrategySymbols, d \in 1 .. MaxDepth :
        /\ strategy' = StrategyObject("MinimaxAI", symbol, d, << >>)
        /\ Constructed

\* LearnedAI(symbol) with move_scores as load_training_data left them
NewLearnedAI ==
    \E symbol \in StrategySymbols, move_scores \in ScoreTables :
        /\ strategy' = StrategyObject("LearnedAI", symbol, 0, move_scores)
        /\ Constructed

\* SimpleAI.get_move(given)
SimpleGetMove ==
    /\ strategy.ai = "SimpleAI"
    /\ \E r \in SimpleAI_get_move(get_win_checker, given,
                                  strategy.player_symbol) :
           Called(None, r)

\* MinimaxAI.get_move(given): opponent_symbols is what
\* _get_opponent_symbols returns; on the nearly full boards
MinimaxGetMove ==
    /\ strategy.ai = "MinimaxAI"
    /\ given \in DenseBoards
    /\ \E opps \in get_opponent_symbols(given, strategy.player_symbol) :
         \E r \in MinimaxAI_get_move(get_win_checker, given,
                     strategy.player_symbol, strategy.max_depth, opps) :
             Called(None, r)

\* MinimaxAI.get_move(given, opponent_symbols), on the nearly full boards
MinimaxGetMoveAgainst ==
    /\ strategy.ai = "MinimaxAI"
    /\ given \in DenseBoards
    /\ \E opps \in GivenOpponents :
         \E r \in MinimaxAI_get_move(get_win_checker, given,
                     strategy.player_symbol, strategy.max_depth, opps) :
             Called(opps, r)

\* LearnedAI.get_move(given)
LearnedGetMove ==
    /\ strategy.ai = "LearnedAI"
    /\ \E r \in LearnedAI_get_move(get_win_checker, given,
                   strategy.player_symbol, strategy.move_scores) :
           Called(None, r)

StrategyNext ==
    \/ NewSimpleAI \/ NewMinimaxAI \/ NewLearnedAI
    \/ SimpleGetMove \/ MinimaxGetMove \/ MinimaxGetMoveAgainst
    \/ LearnedGetMove

StrategySpec == StrategyStart /\ [][StrategyNext]_vars

\* ------------------------------------------------------------------------
\* State machine of the strategies given a Board object in memory: the
\* strategy is constructed and its get_move is called on the Board `orig`
\* ------------------------------------------------------------------------

\* a Board object holding the cells b: Board() followed by
\* set(w, x, y, z, b[w, x, y, z]) for every position
BoardOf(b) ==
    LET new_board == Board_new(<< >>)
    IN  [heap |->
            [i \in 1 .. Len(new_board.heap) |->
                IF \E p \in Coords :
                      InnerList(new_board.heap, new_board.root, p) = i
                THEN [k \in 1 .. SIZE |->
                        b[LET p == CHOOSE q \in Coords :
                                     InnerList(new_board.heap,
                                               new_board.root, q) = i
                          IN  << p[1], p[2], p[3], k - 1 >>]]
                ELSE new_board.heap[i]],
         root |-> new_board.root]

\* the boards given: full, one and two cells empty with nothing to win or
\* block, and one cell empty that completes a line
MemoryBoards ==
    {QuietBoard(0), QuietBoard(1), QuietBoard(2),
     DrawBoard(Len(DrawLog) - 1)}

MemoryStart ==
    /\ given \in MemoryBoards
    /\ heap = BoardOf(given).heap
    /\ orig = BoardOf(given).root
    /\ copies = << >>
    /\ bcall = [op |-> "Board", target |-> orig, pos |-> << >>,
                value |-> None, ret |-> TRUE, raised |-> None]
    /\ CheckerInit
    /\ NoStrategy
    /\ board = Game_init.board
    /\ state = Game_init.state
    /\ players = Game_init.players
    /\ player_symbols = Game_init.player_symbols
    /\ current_player_index = Game_init.current_player_index
    /\ move_history = Game_init.move_history
    /\ winner = Game_init.winner
    /\ winning_line = Game_init.winning_line
    /\ op = "new"
    /\ ret = Return(TRUE, None)

\* get_move returned or raised r and left the heap h
CalledOn(opponent_symbols, r, h) ==
    /\ acall' = StrategyCall("get_move", opponent_symbols, r)
    /\ heap' = h
    /\ UNCHANGED << orig, copies, bcall, given, strategy, lvars >>
    /\ GameIdle /\ UNCHANGED cvars

\* SimpleAI.get_move(orig)
SimpleGetMoveOn ==
    /\ strategy.ai = "SimpleAI"
    /\ \E opps \in Orders(opponent_symbols_on(Cells(heap, orig),
                                              strategy.player_symbol)) :
         \E r \in SimpleAI_get_move_in_order(get_win_checker,
                     Cells(heap, orig), strategy.player_symbol, opps) :
             CalledOn(None, r,
                      HeuristicHeap(get_win_checker, heap, orig,
                                    strategy.player_symbol, opps))

\* MinimaxAI.get_move(orig)
MinimaxGetMoveOn ==
    /\ strategy.ai = "MinimaxAI"
    /\ \E opps \in get_opponent_symbols(Cells(heap, orig),
                                        strategy.player_symbol) :
         \E r \in MinimaxAI_get_move(get_win_checker, Cells(heap, orig),
                     strategy.player_symbol, strategy.max_depth, opps) :
             CalledOn(None, r,
                      MinimaxAI_get_move_heap(get_win_checker, heap, orig,
                          strategy.player_symbol, strategy.max_depth, opps))

\* LearnedAI.get_move(orig)
LearnedGetMoveOn ==
    /\ strategy.ai = "LearnedAI"
    /\ \E opps \in Orders(opponent_symbols_on(Cells(heap, orig),
                                              strategy.player_symbol)) :
         \E r \in LearnedAI_get_move_in_order(get_win_checker,
                     Cells(heap, orig), strategy.player_symbol,
                     strategy.move_scores, opps) :
             CalledOn(None, r,
                      HeuristicHeap(get_win_checker, heap, orig,
                                    strategy.player_symbol, opps))

MemoryNext ==
    \/ NewSimpleAI \/ NewMinimaxAI \/ NewLearnedAI
    \/ SimpleGetMoveOn \/ MinimaxGetMoveOn \/ LearnedGetMoveOn

MemorySpec == MemoryStart /\ [][MemoryNext]_vars

\* ------------------------------------------------------------------------
\* LearnedAI objects and their training log
\* ------------------------------------------------------------------------

\* moves per game of the logs given
MaxMoves == 2

\* the move entries of the logs: two entries for one cell, an entry without
\* 'reward', an entry whose 'move' has two numbers, an entry with a string
\* as 'reward', an entry without 'move'
MoveEntries ==
    { MoveData(MoveList(<< 1, 1, 1, 1 >>), RewardNumber(1)),
      MoveData(MoveList(<< 1, 1, 1, 1 >>), RewardNumber(-1)),
      MoveData(MoveList(<< 0, 0, 0, 0 >>), NoReward),
      MoveData(MoveList(<< 0, 0 >>), RewardNumber(1)),
      MoveData(MoveList(<< 0, 0, 0, 0 >>), RewardString),
      MoveData(NoMove, RewardNumber(1)) }

\* the lists of at most n move entries
RECURSIVE MoveLists(_)
MoveLists(n) ==
    IF n = 0 THEN {<< >>}
    ELSE MoveLists(n - 1)
            \cup {Append(moves, e) : moves \in {m \in MoveLists(n - 1) :
                                                  Len(m) = n - 1},
                                     e \in MoveEntries}

\* the games of the logs; a second game has one move entry at most
Games ==
    {GameWithoutMoves, GameNumber} \cup {GameData(m) : m \in MoveLists(MaxMoves)}
LaterGames ==
    {GameWithoutMoves, GameNumber} \cup {GameData(m) : m \in MoveLists(1)}

\* what can be at the path given to LearnedAI(...)
TrainingFiles ==
    {MissingFile, InvalidFile, TrainingFile(<< >>)}
        \cup {TrainingFile(<< g >>) : g \in Games}
        \cup {TrainingFile(<< g, h >>) : g \in Games, h \in LaterGames}

\* what can be at the path given to a later load_training_data
LaterFiles ==
    {MissingFile, InvalidFile}
        \cup {TrainingFile(<< g >>) : g \in LaterGames}

\* no LearnedAI constructed; some file, or none, at the path
LoaderStart ==
    /\ BoardInit
    /\ CheckerInit
    /\ given = Board_init
    /\ strategy = StrategyObject("none", None, 0, << >>)
    /\ acall = StrategyCall("none", None, Moved(<< >>))
    /\ training_data \in TrainingFiles
    /\ statistics = Statistics(<< >>, << >>, << >>)
    /\ search = NoSearch
    /\ board = Game_init.board
    /\ state = Game_init.state
    /\ players = Game_init.players
    /\ player_symbols = Game_init.player_symbols
    /\ current_player_index = Game_init.current_player_index
    /\ move_history = Game_init.move_history
    /\ winner = Game_init.winner
    /\ winning_line = Game_init.winning_line
    /\ op = "new"
    /\ ret = Return(TRUE, None)

\* the Game, the Board and the WinChecker objects and the board stay
LoaderIdle == GameIdle /\ UNCHANGED << bvars, cvars, given, search >>

\* the LearnedAI has the fields that load_training_data left
Loaded(symbol, l) ==
    /\ strategy' = StrategyObject("LearnedAI", symbol, 0, l.move_scores)
    /\ statistics' = l.statistics

\* LearnedAI(symbol, training_data_path=path), training_data being what is
\* at the path (with no path, at the first of the default paths that
\* exists: with no file there load_training_data is not called, and the
\* fields are the same as after the FileNotFoundError)
NewLearnedAIFrom ==
    \E symbol \in StrategySymbols :
        /\ Loaded(symbol, load_training_data(<< >>,
                      Statistics(<< >>, << >>, << >>), training_data))
        /\ acall' = StrategyCall("__init__", None, Moved(<< >>))
        /\ UNCHANGED training_data
        /\ LoaderIdle

\* load_training_data(path) on the LearnedAI constructed, once, file being
\* what is at that path
LoadTrainingData ==
    /\ strategy.ai = "LearnedAI"
    /\ acall.op = "__init__"
    /\ \E file \in LaterFiles :
        /\ training_data' = file
        /\ Loaded(strategy.player_symbol,
                  load_training_data(strategy.move_scores, statistics, file))
        /\ acall' = StrategyCall("load_training_data", None, Moved(<< >>))
        /\ LoaderIdle

LoaderNext == NewLearnedAIFrom \/ LoadTrainingData

LoaderSpec == LoaderStart /\ [][LoaderNext]_vars

\* ------------------------------------------------------------------------
\* The search of MinimaxAI
\* ------------------------------------------------------------------------

\* the full board with << 0, 0, 0, 0 >> and << 0, 0, 0, 1 >> emptied
LossBoard ==
    [p \in Coords |->
        IF p = << 0, 0, 0, 0 >> \/ p = << 0, 0, 0, 1 >> THEN None
        ELSE DrawBoard(Len(DrawLog))[p]]

\* the boards searched: the nearly full boards with an empty cell, the
\* board before the last move of DrawLog, and LossBoard
SearchBoards ==
    {QuietBoard(e) : e \in 1 .. MaxEmpty}
        \cup {DrawBoard(Len(DrawLog) - 1), ThreatBoard, LossBoard}

\* the values of max_depth and of the depth argument of _minimax
Depths == -1 .. MaxDepth

SearchStart ==
    /\ BoardInit
    /\ CheckerInit
    /\ given \in SearchBoards
    /\ NoStrategy
    /\ board = Game_init.board
    /\ state = Game_init.state
    /\ players = Game_init.players
    /\ player_symbols = Game_init.player_symbols
    /\ current_player_index = Game_init.current_player_index
    /\ move_history = Game_init.move_history
    /\ winner = Game_init.winner
    /\ winning_line = Game_init.winning_line
    /\ op = "new"
    /\ ret = Return(TRUE, None)

\* the Game, the Board and the WinChecker objects, the board given and the
\* fields of a LearnedAI stay
SearchIdle ==
    GameIdle /\ UNCHANGED << bvars, cvars, given, training_data, statistics >>

\* MinimaxAI(symbol, max_depth=d): max_depth is stored as given; nothing
\* was searched by the new object
NewMinimaxAIOfDepth ==
    \E symbol \in StrategySymbols, d \in Depths :
        /\ strategy' = StrategyObject("MinimaxAI", symbol, d, << >>)
        /\ acall' = StrategyCall("__init__", None, Moved(<< >>))
        /\ search' = NoSearch
        /\ SearchIdle

\* _minimax(given, depth, maximizing, opponent_symbols, -inf, inf), the
\* first call on the object (a call leaves the object as it is)
MinimaxCall ==
    /\ strategy.ai = "MinimaxAI"
    /\ acall.op = "__init__"
    /\ \E depth \in Depths, maximizing \in BOOLEAN,
          opps \in get_opponent_symbols(given, strategy.player_symbol) :
         LET found == SearchNode(get_win_checker, given,
                                 strategy.player_symbol, depth, maximizing,
                                 opps, 0 - inf, inf)
         IN  /\ search' = SearchCall("_minimax", depth, maximizing, opps,
                                     found.value, found.plies)
             /\ acall' = StrategyCall("_minimax", opps, Moved(<< >>))
             /\ UNCHANGED strategy
             /\ SearchIdle

\* get_move(given) of a MinimaxAI, the first call on the object
MinimaxSearch ==
    /\ strategy.ai = "MinimaxAI"
    /\ acall.op = "__init__"
    /\ \E opps \in get_opponent_symbols(given, strategy.player_symbol) :
         \E r \in MinimaxAI_get_move(get_win_checker, given,
                     strategy.player_symbol, strategy.max_depth, opps) :
             /\ search' = SearchCall("get_move", strategy.max_depth, TRUE,
                               opps, None,
                               MinimaxAI_get_move_plies(get_win_checker,
                                   given, strategy.player_symbol,
                                   strategy.max_depth, opps))
             /\ acall' = StrategyCall("get_move", None, r)
             /\ UNCHANGED strategy
             /\ SearchIdle

SearchNext == NewMinimaxAIOfDepth \/ MinimaxCall \/ MinimaxSearch

SearchSpec == SearchStart /\ [][SearchNext]_vars

\* ------------------------------------------------------------------------
\* State machine of a game played by strategies: the loop of run_simulation
\* and of test_full_game, entered with a started game
\* ------------------------------------------------------------------------

\* the largest number of cells left open in the games the loop is entered
\* with
MaxLeft == 4

\* the games of Script with 1 .. MaxLeft cells left to play
PlayGames ==
    {RunCalls(Script, Game_init, 1, 5 + Len(DrawLog) - k) : k \in 1 .. MaxLeft}

\* score tables of a LearnedAI: none loaded; a good score on the last cell
\* of DrawLog and a bad one on the cell before it
PlayTables ==
    { << >>,
      (DrawLog[Len(DrawLog)] :> Score(1, 1))
         @@ (DrawLog[Len(DrawLog) - 1] :> Score(-1, 1)) }

\* the strategy objects constructed with symbol
PlayStrategies(symbol) ==
    {StrategyObject("SimpleAI", symbol, 0, << >>)}
    \cup {StrategyObject("MinimaxAI", symbol, d, << >>) : d \in 1 .. MaxDepth}
    \cup {StrategyObject("LearnedAI", symbol, 0, t) : t \in PlayTables}

\* ai.get_move(b): what the call on strategy object ai can return or raise
get_move(ai, b) ==
    IF ai.ai = "SimpleAI"
    THEN SimpleAI_get_move(get_win_checker, b, ai.player_symbol)
    ELSE IF ai.ai = "MinimaxAI"
    THEN UNION {MinimaxAI_get_move(get_win_checker, b, ai.player_symbol,
                                   ai.max_depth, opps) :
                   opps \in get_opponent_symbols(b, ai.player_symbol)}
    ELSE LearnedAI_get_move(get_win_checker, b, ai.player_symbol,
                            ai.move_scores)

\* faulty variant of SubmitMove: every coordinate is submitted with the
\* identifier of the first roster player
SubmitMove_as_first_player(self, player_id, r) ==
    IF r.raised # None THEN [self |-> self, ret |-> Raise(r.raised)]
    ELSE make_move(self, self.players[1].player_id, r.move)

\* `success, error = game.make_move(player_id, w, x, y, z)` with the
\* coordinate r that get_move returned; when get_move raised, make_move is
\* not called
SubmitMove(self, player_id, r) ==
    IF r.raised # None THEN [self |-> self, ret |-> Raise(r.raised)]
    ELSE make_move(self, player_id, r.move)

\* a run entered with one of the started games
StartedWith(games) ==
    /\ BoardInit
    /\ CheckerInit
    /\ StrategyInit
    /\ \E g \in games :
          /\ board = g.board
          /\ state = g.state
          /\ players = g.players
          /\ player_symbols = g.player_symbols
          /\ current_player_index = g.current_player_index
          /\ move_history = g.move_history
          /\ winner = g.winner
          /\ winning_line = g.winning_line
          /\ op = "new"
          /\ ret = Return(TRUE, None)

PlayStart == StartedWith(PlayGames)

\* one pass of the loop body: the strategy of the current player is given
\* get_board_copy() and what it returns is submitted with that player's
\* identifier
Play ==
    /\ state # FINISHED
    /\ get_current_player(Self) # NoPlayer
    /\ \E ai \in PlayStrategies(players[get_current_player(Self)].symbol) :
         \E r \in get_move(ai, board) :
            LET made == SubmitMove(Self,
                           players[get_current_player(Self)].player_id, r)
            IN  /\ given' = board
                /\ strategy' = ai
                /\ acall' = StrategyCall("get_move", None, r)
                /\ board' = made.self.board
                /\ state' = made.self.state
                /\ players' = made.self.players
                /\ player_symbols' = made.self.player_symbols
                /\ current_player_index' = made.self.current_player_index
                /\ move_history' = made.self.move_history
                /\ winner' = made.self.winner
                /\ winning_line' = made.self.winning_line
                /\ op' = "make_move"
                /\ ret' = made.ret
                /\ UNCHANGED << bvars, cvars, lvars >>

\* the current player submits a legal move: any cell is_valid_move accepts
SubmitLegalMove ==
    /\ get_current_player(Self) # NoPlayer
    /\ \E pos \in Coords :
          /\ is_valid_move(board, pos)
          /\ Becomes("make_move",
                     make_move(Self,
                        players[get_current_player(Self)].player_id, pos))

PlayNext == MakeMove \/ Play

PlaySpec == PlayStart /\ [][PlayNext]_vars

\* the largest number of cells left open in the games legal moves are
\* submitted to
MaxFree == 5

\* the games of Script with 1 .. MaxFree cells left to play
LegalGames ==
    {RunCalls(Script, Game_init, 1, 5 + Len(DrawLog) - k) : k \in 1 .. MaxFree}

LegalStart == StartedWith(LegalGames)

LegalNext == SubmitLegalMove \/ MakeMove

\* the loop goes on while the game is not over: a legal move that can be
\* submitted is submitted
LegalPlaySpec ==
    LegalStart /\ [][LegalNext]_vars /\ WF_vars(SubmitLegalMove)

\* ------------------------------------------------------------------------
\* Properties
\* ------------------------------------------------------------------------

\* the step is a make_move call that was accepted
MoveAccepted == op' = "make_move" /\ ret'.ok

\* the record the last accepted move appended, and its coordinate
LastRecord == move_history[Len(move_history)]
LastPos == LastRecord[2]

\* the roster player at the current-turn index
CurrentSeat == players[current_player_index + 1]

\* the straight lines of the lattice as sets of cells: p, p+d, p+2d inside
\* the board, d a non-zero vector over {-1, 0, 1}
Lattice == {l \in {{p, << p[1] + d[1], p[2] + d[2], p[3] + d[3], p[4] + d[4] >>,
                       << p[1] + 2 * d[1], p[2] + 2 * d[2],
                          p[3] + 2 * d[3], p[4] + 2 * d[4] >>} :
                   p \in Coords,
                   d \in ({-1, 0, 1} \X {-1, 0, 1} \X {-1, 0, 1} \X {-1, 0, 1})
                         \ {<< 0, 0, 0, 0 >>}} :
               l \subseteq Coords}

\* some line of the lattice has all three cells holding symbol on board b
OwnsLine(b, symbol) == \E l \in Lattice : \A q \in l : b[q] = symbol

\* no cell of board b is empty
Full(b) == \A p \in Coords : b[p] # None

\* C1: after an accepted make_move(playerId, c), cell c holds the symbol of
\* the roster player who was at the current-turn index, one record
\* (playerId, c) has been appended to the move log, and no other cell changed.
C1_MoverSymbolPlaced ==
    [][MoveAccepted =>
         \E pos \in Coords :
            /\ board' = [board EXCEPT ![pos] = CurrentSeat.symbol]
            /\ move_history' =
                  Append(move_history, << CurrentSeat.player_id, pos >>)]_vars

\* C2: strict round robin. The k-th accepted move (from 0) carries the
\* identifier of the roster player at index k mod n, while the game is
\* Playing the current-turn index is (number of accepted moves) mod n, and an
\* accepted move that does not finish the game advances the index by one
\* mod n.
C2_RoundRobin ==
    /\ [](state # WAITING =>
            \A k \in 1 .. Len(move_history) :
               move_history[k][1] =
                  players[((k - 1) % Len(players)) + 1].player_id)
    /\ [](state = PLAYING =>
            current_player_index = Len(move_history) % Len(players))
    /\ [][(MoveAccepted /\ state' # FINISHED) =>
            current_player_index' =
               (current_player_index + 1) % Len(players)]_vars

\* C2 witness: an accepted move after the turn has gone once around the
\* roster, the game still Playing
C2_Witness ==
    /\ state = PLAYING /\ op = "make_move" /\ ret.ok
    /\ Len(move_history) > Len(players)
    /\ current_player_index > 0

\* C3: a rejected make_move leaves board, move log, current-turn index,
\* state tag, winner and winning line (and the roster) as they were.
C3_RejectedMoveChangesNothing ==
    [][(op' = "make_move" /\ ~ret'.ok) => UNCHANGED gvars]_vars

\* C3 witness: a move rejected during play, after moves were made
C3_Witness ==
    /\ state = PLAYING /\ op = "make_move" /\ ~ret.ok
    /\ Len(move_history) > 0

\* the first of the four conditions of C4 that a call meets ("none" when
\* it meets none of them)
Condition(player_id, pos) ==
    IF state # PLAYING THEN "not-playing"
    ELSE IF CurrentSeat.player_id # player_id THEN "not-your-turn"
    ELSE IF pos \notin Coords THEN "out-of-range"
    ELSE IF board[pos] # None THEN "occupied"
    ELSE "none"

\* what make_move would return on the call (player_id, pos) now
Answer(player_id, pos) == make_move(Self, player_id, pos).ret

\* C4 as stated: make_move never raises, and rejections for different ones
\* of the four conditions (not-playing, not-your-turn, occupied,
\* out-of-range) carry different reasons.
C4_FourReasons ==
    \A id1 \in CallerIds, id2 \in CallerIds,
       pos1 \in MoveInputs, pos2 \in MoveInputs :
        /\ ~Answer(id1, pos1).raised
        /\ (/\ ~Answer(id1, pos1).ok
            /\ ~Answer(id2, pos2).ok
            /\ Condition(id1, pos1) # Condition(id2, pos2))
           => Answer(id1, pos1).err # Answer(id2, pos2).err

\* C4 amended: make_move never raises, a call is rejected exactly when it
\* meets one of the conditions, and the reason is one of three: not playing,
\* not your turn, or invalid position; an occupied cell and an out-of-range
\* coordinate are both reported as invalid position.
C4_ThreeReasons ==
    \A id \in CallerIds, pos \in MoveInputs :
        /\ ~Answer(id, pos).raised
        /\ Answer(id, pos).ok <=> (Condition(id, pos) = "none")
        /\ ~Answer(id, pos).ok =>
              Answer(id, pos).err =
                 (CASE Condition(id, pos) = "not-playing" ->
                          "Game is not in playing state"
                    [] Condition(id, pos) = "not-your-turn" -> "Not your turn"
                    [] OTHER -> "Invalid move position")

\* C4 witness: a move was just rejected as an invalid position in a state
\* where the mover has both an occupied cell and an out-of-range coordinate
\* to offer, and both get that same reason
C4_Witness ==
    /\ state = PLAYING /\ op = "make_move" /\ ~ret.ok
    /\ ret.err = "Invalid move position"
    /\ \E pos1 \in MoveInputs, pos2 \in MoveInputs :
          /\ Condition(CurrentSeat.player_id, pos1) = "occupied"
          /\ Condition(CurrentSeat.player_id, pos2) = "out-of-range"
          /\ Answer(CurrentSeat.player_id, pos1).err =
                Answer(CurrentSeat.player_id, pos2).err

\* C5: when an accepted move leaves some line with all three cells holding
\* the symbol just placed, the game is Finished in that call, the winner
\* carries the identifier that made the move, and winning_line is a line of
\* the precomputed table whose cells all hold the winner's symbol and which
\* contains the coordinate just played.
C5_WinFinishesGame ==
    [][(MoveAccepted /\ OwnsLine(board', board'[LastPos'])) =>
         /\ state' = FINISHED
         /\ winner' # NoPlayer
         /\ players'[winner'].player_id = LastRecord'[1]
         /\ players'[winner'].symbol = board'[LastPos']
         /\ board'[LastPos'] = CurrentSeat.symbol =>
               winner' = current_player_index + 1
         /\ \E i \in 1 .. Len(get_win_checker.winning_lines) :
               winning_line' = get_win_checker.winning_lines[i]
         /\ \A s \in 1 .. 3 :
               board'[winning_line'[s]] = players'[winner'].symbol
         /\ \E s \in 1 .. 3 : winning_line'[s] = LastPos']_vars

\* C5 witness: the third X on (0,1,1,1), (1,1,1,1), (2,1,1,1) finished the
\* game for the first player with exactly those coordinates
C5_Witness ==
    /\ state = FINISHED /\ op = "make_move" /\ ret.ok
    /\ winner = 1 /\ players[1].symbol = "X"
    /\ LastPos = << 2, 1, 1, 1 >>
    /\ winning_line = << << 0, 1, 1, 1 >>, << 1, 1, 1, 1 >>, << 2, 1, 1, 1 >> >>

\* C6: an accepted move that leaves no empty cell finishes the game; when it
\* completes no line there is no winner and no winning line (draw), and when
\* it completes a line the mover has won.
C6_FullBoardOutcome ==
    [][(MoveAccepted /\ Full(board')) =>
         /\ state' = FINISHED
         /\ IF OwnsLine(board', board'[LastPos'])
            THEN /\ winner' # NoPlayer
                 /\ players'[winner'].player_id = LastRecord'[1]
                 /\ board'[LastPos'] = CurrentSeat.symbol =>
                       winner' = current_player_index + 1
                 /\ winning_line' # << >>
            ELSE /\ winner' = NoPlayer
                 /\ winning_line' = << >>]_vars

\* C6 witness: the last cell was filled, no line is complete, the game is a
\* draw
C6_Witness ==
    /\ state = FINISHED /\ op = "make_move" /\ ret.ok
    /\ Full(board) /\ Len(move_history) = 81
    /\ ~OwnsLine(board, board[LastPos])
    /\ winner = NoPlayer /\ winning_line = << >>

\* the other case of C6: the move that filled the last cell completed a line
C6_LastCellWin ==
    /\ state = FINISHED /\ op = "make_move" /\ ret.ok
    /\ Full(board) /\ Len(move_history) = 81
    /\ winner # NoPlayer

\* C7: once the game is Finished every call is rejected and nothing of the
\* game changes.
C7_FinishedAbsorbing ==
    [][state = FINISHED => (UNCHANGED gvars /\ ~ret'.ok)]_vars

\* C7 witness: start_game was called on a finished game
C7_Witness == state = FINISHED /\ op = "start_game" /\ ~ret.ok

\* C8: start_game succeeds exactly in Waiting with 4 or 5 players; on
\* success the game is Playing with empty board and move log, no winner, no
\* winning line and current-turn index 0; on failure nothing changes.
C8_StartGame ==
    [][op' = "start_game" =>
         /\ ret'.ok <=> (state = WAITING /\ Len(players) \in {4, 5})
         /\ ret'.ok =>
               /\ state' = PLAYING
               /\ \A p \in Coords : board'[p] = None
               /\ move_history' = << >>
               /\ winner' = NoPlayer
               /\ winning_line' = << >>
               /\ current_player_index' = 0
               /\ players' = players
         /\ ~ret'.ok => UNCHANGED gvars]_vars

\* C8 witness: a game of four players was started
C8_Witness ==
    /\ op = "start_game" /\ ret.ok /\ state = PLAYING /\ Len(players) = 4

\* the other cases of C8: start refused with three players, start with five
C8_TooFew == op = "start_game" /\ ~ret.ok /\ Len(players) = 3
C8_Five == op = "start_game" /\ ret.ok /\ Len(players) = 5

\* the step is the call add_player(player_id, symbol)
AddPlayerCall(player_id, symbol) ==
    /\ op' = "add_player"
    /\ ret' = add_player(Self, player_id, symbol).ret
    /\ players' = add_player(Self, player_id, symbol).self.players

C5_ReusedId ==
    /\ state = FINISHED /\ op = "make_move" /\ ret.ok
    /\ winner = 2 /\ Len(move_history) % Len(players) = 1
    /\ players[1].player_id = players[2].player_id

\* the cells of the board that hold a symbol
Occupied == {p \in Coords : board[p] # None}

\* C11: in every state of a started Game the board is the replay of the move
\* log: the occupied cells are exactly the logged coordinates, no coordinate
\* is logged twice, each occupied cell holds the symbol of the roster player
\* who logged it (the k-th record, from 0, is logged by roster player
\* k mod n), and the number of occupied cells is the length of the log.
C11_BoardIsReplay ==
    state # WAITING =>
        /\ Occupied = {move_history[k][2] : k \in 1 .. Len(move_history)}
        /\ \A j \in 1 .. Len(move_history), k \in 1 .. Len(move_history) :
               j # k => move_history[j][2] # move_history[k][2]
        /\ \A k \in 1 .. Len(move_history) :
               board[move_history[k][2]] =
                  players[((k - 1) % Len(players)) + 1].symbol
        /\ count_moves(board) = Len(move_history)
        /\ Cardinality(Occupied) = Len(move_history)

\* the part of C11 that does not depend on whose symbol is placed: occupied
\* cells are the logged coordinates, each logged once, each holding the
\* symbol registered under the logged identifier
C11_CellsAreLogged ==
    state # WAITING =>
        /\ Occupied = {move_history[k][2] : k \in 1 .. Len(move_history)}
        /\ \A j \in 1 .. Len(move_history), k \in 1 .. Len(move_history) :
               j # k => move_history[j][2] # move_history[k][2]
        /\ \A k \in 1 .. Len(move_history) :
               board[move_history[k][2]] = player_symbols[move_history[k][1]]
        /\ count_moves(board) = Len(move_history)
        /\ Cardinality(Occupied) = Len(move_history)

\* C12: for an in-range coordinate c and a value s, after Board.set(c, s)
\* Board.get(c) returns s and Board.get of each of the other 80 coordinates
\* returns what it returned before the set.
C12_SetGet ==
    [][(bcall'.op = "set" /\ is_valid_position(bcall'.pos)) =>
         /\ bcall'.raised = None
         /\ Board_get(heap', bcall'.target, bcall'.pos) =
               [raised |-> None, value |-> bcall'.value]
         /\ \A q \in Coords \ {bcall'.pos} :
               Board_get(heap', bcall'.target, q) =
                  Board_get(heap, bcall'.target, q)]_vars

\* C12 witness: a cell was set to a symbol while another cell held one
C12_Witness ==
    /\ bcall.op = "set" /\ bcall.pos \in Coords /\ bcall.value = "X"
    /\ \E q \in Coords \ {bcall.pos} : Load(heap, bcall.target, q) = "X"

\* the other cases of C12: a cell set back to None, a set outside the board
C12_Cleared ==
    /\ bcall.op = "set" /\ bcall.pos \in Coords /\ bcall.value = None
    /\ \E q \in Coords \ {bcall.pos} : Load(heap, bcall.target, q) = "X"
C12_OutOfRange == bcall.op = "set" /\ bcall.raised = "ValueError"

\* C13: Board.make_move(symbol, c) returns true exactly when c is in range
\* and the cell at c is empty; on true only cell c changes and holds symbol;
\* on false the board is unchanged; it never raises.
C13_BoardMakeMove ==
    [][bcall'.op = "make_move" =>
         /\ bcall'.raised = None
         /\ bcall'.ret <=>
               /\ bcall'.pos \in Coords
               /\ Load(heap, bcall'.target, bcall'.pos) = None
         /\ bcall'.ret =>
               Cells(heap', bcall'.target) =
                  [Cells(heap, bcall'.target) EXCEPT
                      ![bcall'.pos] = bcall'.value]
         /\ ~bcall'.ret =>
               Cells(heap', bcall'.target) = Cells(heap, bcall'.target)]_vars

\* C13 witness: a move on an occupied cell was refused
C13_Witness ==
    /\ bcall.op = "make_move" /\ ~bcall.ret /\ bcall.pos \in Coords
    /\ Load(heap, bcall.target, bcall.pos) # None

\* the other cases of C13: a move accepted, a move outside the board refused
C13_Accepted == bcall.op = "make_move" /\ bcall.ret
C13_OutOfRange ==
    bcall.op = "make_move" /\ ~bcall.ret /\ bcall.pos \notin Coords

\* C14: a board obtained from Board.copy() (Game.get_board_copy()) has the
\* contents of the original at the time of the copy, taking it leaves the
\* original as it was, and afterwards a mutation of either board changes no
\* cell of the other.
C14_CopyIsIndependent ==
    /\ [][bcall'.op = "copy" =>
            /\ Cells(heap', copies'[Len(copies')]) = Cells(heap, orig)
            /\ \A t \in Targets : Cells(heap', t) = Cells(heap, t)]_vars
    /\ [][bcall'.op \in {"set", "make_move"} =>
            \A t \in Targets \ {bcall'.target} :
               Cells(heap', t) = Cells(heap, t)]_vars

\* C14 witness: the copy was mutated and now differs from the original,
\* which holds a symbol of its own
C14_Witness ==
    /\ Len(copies) > 0
    /\ bcall.op \in {"set", "make_move"} /\ bcall.target = copies[1]
    /\ bcall.pos \in Coords
    /\ Load(heap, copies[1], bcall.pos) # Load(heap, orig, bcall.pos)
    /\ \E q \in Coords : Load(heap, orig, q) # None

\* the other case of C14: the original was mutated after the copy was taken
C14_OriginalMutated ==
    /\ Len(copies) > 0
    /\ bcall.op \in {"set", "make_move"} /\ bcall.target = orig
    /\ bcall.pos \in Coords
    /\ Load(heap, copies[1], bcall.pos) # Load(heap, orig, bcall.pos)

\* C15: every construction of WinChecker produces exactly 272 winning
\* lines, and any two constructions produce the same set of lines.
C15_LineCount ==
    /\ \A i \in 1 .. Len(checkers) : count_winning_lines(checkers[i]) = 272
    /\ \A i \in 1 .. Len(checkers), j \in 1 .. Len(checkers) :
          {checkers[i].winning_lines[k] :
              k \in 1 .. Len(checkers[i].winning_lines)} =
          {checkers[j].winning_lines[k] :
              k \in 1 .. Len(checkers[j].winning_lines)}

\* C15 witness: WinChecker() was constructed a second time
C15_Witness == wcall.op = "WinChecker" /\ Len(checkers) = 2

\* the set of coordinates of a line of the table
LineSet(line) == {line[s] : s \in 1 .. Len(line)}

\* the non-zero direction vectors with components in {-1, 0, 1}
Steps ==
    ({-1, 0, 1} \X {-1, 0, 1} \X {-1, 0, 1} \X {-1, 0, 1})
       \ {<< 0, 0, 0, 0 >>}

\* line is p, p + d, p + 2d for the vector d from its first to its second
\* coordinate
EvenlySpaced(line) ==
    /\ << line[2][1] - line[1][1], line[2][2] - line[1][2],
          line[2][3] - line[1][3], line[2][4] - line[1][4] >> \in Steps
    /\ \A a \in 1 .. 4 : line[3][a] - line[2][a] = line[2][a] - line[1][a]

\* C16: every line of the table is 3 distinct in-range coordinates p, p+d,
\* p+2d for a non-zero d over {-1,0,1}; no two lines of the table have the
\* same set of coordinates; every such in-range triple is in the table.
C16_TableIsTheLattice ==
    \A i \in 1 .. Len(checkers) :
        /\ \A k \in 1 .. Len(checkers[i].winning_lines) :
              /\ Len(checkers[i].winning_lines[k]) = 3
              /\ Cardinality(LineSet(checkers[i].winning_lines[k])) = 3
              /\ LineSet(checkers[i].winning_lines[k]) \subseteq Coords
              /\ EvenlySpaced(checkers[i].winning_lines[k])
        /\ Cardinality({LineSet(checkers[i].winning_lines[k]) :
                           k \in 1 .. Len(checkers[i].winning_lines)}) =
              Len(checkers[i].winning_lines)
        /\ {LineSet(checkers[i].winning_lines[k]) :
               k \in 1 .. Len(checkers[i].winning_lines)} = Lattice

\* C16 witness: a WinChecker was constructed and its table holds a line and
\* not its reverse
C16_Witness ==
    /\ wcall.op = "WinChecker"
    /\ \E k \in 1 .. Len(checkers[1].winning_lines) :
          checkers[1].winning_lines[k] = LineA
    /\ \A k \in 1 .. Len(checkers[1].winning_lines) :
          checkers[1].winning_lines[k] # << LineA[3], LineA[2], LineA[1] >>

\* some line of checker i's table through position m has all three cells
\* of board b holding symbol
OwnsLineThrough(i, b, m, symbol) ==
    \E k \in 1 .. Len(checkers[i].winning_lines) :
        /\ m \in LineSet(checkers[i].winning_lines[k])
        /\ \A q \in LineSet(checkers[i].winning_lines[k]) : b[q] = symbol

\* the reverse index of checker i lists for position p each table line
\* through p, once, and no other line
IndexExact(i, p) ==
    /\ {checkers[i].position_to_lines[p][n] :
           n \in 1 .. Len(checkers[i].position_to_lines[p])} =
       {k \in 1 .. Len(checkers[i].winning_lines) :
           p \in LineSet(checkers[i].winning_lines[k])}
    /\ Cardinality({checkers[i].position_to_lines[p][n] :
                       n \in 1 .. Len(checkers[i].position_to_lines[p])}) =
          Len(checkers[i].position_to_lines[p])

\* C17: for an in-range coordinate m, check_win(board, m) returns the symbol
\* s at m when s is not None and some line of the table through m has all
\* three cells equal to s, and None otherwise; the reverse index lists, for
\* each of the 81 coordinates, exactly the table lines that contain it
\* (checked for all 81 when a WinChecker has been constructed, and for m at
\* each lookup).
C17_CheckWin ==
    /\ wcall.op = "check_win" =>
          wcall.ret =
             IF /\ wboard[wcall.pos] # None
                /\ OwnsLineThrough(wcall.checker, wboard, wcall.pos,
                                   wboard[wcall.pos])
             THEN wboard[wcall.pos]
             ELSE None
    /\ wcall.op = "check_win" =>
          IndexExact(wcall.checker, wcall.pos)
    /\ wcall.op = "WinChecker" =>
          /\ DOMAIN checkers[wcall.checker].position_to_lines = Coords
          /\ \A p \in Coords : IndexExact(wcall.checker, p)

\* C17 witness: check_win at the centre cell returned X for the complete
\* LineB while LineA through the same cell is not complete
C17_Witness ==
    /\ wcall.op = "check_win" /\ wcall.pos = LineA[2] /\ wcall.ret = "X"
    /\ \A s \in 1 .. 3 : wboard[LineB[s]] = "X"
    /\ wboard[LineA[1]] = "O"

\* the other cases of C17: None for an empty cell; None for an occupied cell
\* on no complete line while another line of the board is complete
C17_EmptyCell ==
    /\ wcall.op = "check_win" /\ wboard[wcall.pos] = None
    /\ wcall.ret = None
C17_OffTheLine ==
    /\ wcall.op = "check_win" /\ wcall.pos = LineA[1] /\ wcall.ret = None
    /\ wboard[LineA[1]] = "X"
    /\ \A s \in 1 .. 3 : wboard[LineC[s]] = "O"

\* the symbols that own a complete line of checker i's table on board b
LineOwners(i, b) ==
    {symbol \in CellValues \ {None} :
        \E k \in 1 .. Len(checkers[i].winning_lines) :
            \A q \in LineSet(checkers[i].winning_lines[k]) : b[q] = symbol}

\* position m lies on a complete line of checker i's table on board b
OnCompleteLine(i, b, m) ==
    \E k \in 1 .. Len(checkers[i].winning_lines) :
        /\ m \in LineSet(checkers[i].winning_lines[k])
        /\ LineComplete(b, checkers[i].winning_lines[k])

\* C18 as stated: on a board where at most one symbol owns a complete line,
\* check_win and check_win_all_positions return the same answer for every
\* coordinate passed as the last move.
C18_AgreeEverywhere ==
    (/\ wcall.op = "check_win"
     /\ Cardinality(LineOwners(wcall.checker, wboard)) <= 1)
    => wcall.ret = check_win_all_positions(checkers[wcall.checker], wboard)

\* C18 amended: on a board where at most one symbol owns a complete line,
\* check_win and check_win_all_positions return the same answer for every
\* last-move coordinate that lies on a complete line when the board has
\* one; for a coordinate on no complete line check_win returns None, while
\* check_win_all_positions returns the owner.
C18_AgreeOnTheLine ==
    (/\ wcall.op = "check_win"
     /\ Cardinality(LineOwners(wcall.checker, wboard)) <= 1)
    => /\ (\/ LineOwners(wcall.checker, wboard) = {}
           \/ OnCompleteLine(wcall.checker, wboard, wcall.pos))
          => wcall.ret =
                check_win_all_positions(checkers[wcall.checker], wboard)
       /\ ~OnCompleteLine(wcall.checker, wboard, wcall.pos)
          => /\ wcall.ret = None
             /\ {check_win_all_positions(checkers[wcall.checker], wboard)} =
                   IF LineOwners(wcall.checker, wboard) = {} THEN {None}
                   ELSE LineOwners(wcall.checker, wboard)

\* C18 witness: X alone owns a line, the last move lies on it, check_win
\* returned X and so does check_win_all_positions
C18_Witness ==
    /\ wcall.op = "check_win" /\ wcall.ret = "X"
    /\ LineOwners(wcall.checker, wboard) = {"X"}
    /\ OnCompleteLine(wcall.checker, wboard, wcall.pos)
    /\ check_win_all_positions(checkers[wcall.checker], wboard) = "X"

\* the case the premise of C18 excludes: two symbols own lines and the two
\* functions disagree
C18_TwoOwners ==
    /\ wcall.op = "check_win"
    /\ LineOwners(wcall.checker, wboard) = {"X", "O"}
    /\ wcall.ret # check_win_all_positions(checkers[wcall.checker], wboard)

\* the lines of the lattice whose three cells hold one symbol on the board
CompleteLines ==
    {l \in Lattice : \E symbol \in {board[q] : q \in l} \ {None} :
                        \A q \in l : board[q] = symbol}

\* C19: in every board reachable through Game operations at most one symbol
\* owns a complete line, and every complete line contains the coordinate of
\* the last accepted move.
C19_OneOwner ==
    /\ Cardinality({board[q] : q \in UNION CompleteLines}) <= 1
    /\ \A l \in CompleteLines :
          /\ Len(move_history) > 0
          /\ LastPos \in l

\* C19 witness: a finished game whose board has a complete line
C19_Witness ==
    /\ state = FINISHED /\ winner # NoPlayer
    /\ CompleteLines # {}
    /\ Len(move_history) > Len(players)

\* C20: get_move of a SimpleAI, of a MinimaxAI with max_depth >= 1 and of a
\* LearnedAI with any score table, on a board with an empty cell, returns
\* a coordinate that is in range and empty on that board; on a board with
\* no empty cell it raises instead of returning a coordinate.
C20_GetMove ==
    acall.op = "get_move" =>
        IF \E p \in Coords : given[p] = None
        THEN /\ acall.raised = None
             /\ acall.move \in Coords
             /\ given[acall.move] = None
        ELSE /\ acall.raised = "ValueError"
             /\ acall.move = << >>

\* C20 witness: a MinimaxAI searching two plies, with no win and no block
\* to play, returned a cell of a board that has cells taken and cells empty
C20_Witness ==
    /\ strategy.ai = "MinimaxAI" /\ strategy.max_depth = 2
    /\ acall.op = "get_move" /\ acall.raised = None
    /\ given = QuietBoard(MaxEmpty)
    /\ given[acall.move] = None

\* a LearnedAI with scores loaded was given a full board and raised
C20_FullBoard ==
    /\ strategy.ai = "LearnedAI" /\ DOMAIN strategy.move_scores # {}
    /\ acall.op = "get_move" /\ acall.raised = "ValueError"
    /\ \A p \in Coords : given[p] # None

\* a SimpleAI returned a cell where overwriting a taken cell would have
\* completed its line
C20_TakenCellOnLine ==
    /\ strategy.ai = "SimpleAI" /\ strategy.player_symbol = "X"
    /\ acall.op = "get_move" /\ acall.raised = None
    /\ given[LineA[1]] = "X" /\ given[LineA[2]] = "X" /\ given[LineA[3]] = "O"

\* a LearnedAI returned the cell its score table rates highest among the
\* empty ones, the table rating a taken cell higher
C20_ScoredTakenCell ==
    /\ strategy.ai = "LearnedAI"
    /\ acall.op = "get_move" /\ acall.raised = None
    /\ acall.move = LineA[3]
    /\ given[LineA[1]] # None
    /\ LineA[1] \in DOMAIN strategy.move_scores
    /\ ScoreGreater(strategy.move_scores[LineA[1]],
                    strategy.move_scores[LineA[3]])

\* taking the empty position p completes a line of the lattice for symbol
\* on board b
Completes(b, symbol, p) ==
    /\ b[p] = None
    /\ \E l \in Lattice : p \in l /\ \A q \in l \ {p} : b[q] = symbol

\* the symbols on board b other than symbol
Opposing(b, symbol) == {b[q] : q \in Coords} \ {None, symbol}

\* p completes a line for a symbol on board b that opposes symbol
Blocks(b, symbol, p) == \E o \in Opposing(b, symbol) : Completes(b, o, p)

\* get_move was called on the strategy without opponent_symbols and returned
Chose == acall.op = "get_move" /\ acall.opponent_symbols = None

\* C21: when some empty cell completes a line for the acting symbol,
\* get_move of a SimpleAI, a MinimaxAI and a LearnedAI returns such a cell
\* (the one such cell when there is exactly one), whatever central cells are
\* free, whatever can be blocked and whatever the scores are.
C21_WinFirst ==
    (Chose /\ \E p \in Coords : Completes(given, strategy.player_symbol, p))
        => /\ acall.raised = None
           /\ Completes(given, strategy.player_symbol, acall.move)

\* C21 witness: a LearnedAI playing X, its table rating another empty cell
\* positive, returned the one cell that wins, while O could be blocked
\* elsewhere and central cells were free
C21_Witness ==
    /\ Chose /\ strategy.ai = "LearnedAI" /\ strategy.player_symbol = "X"
    /\ acall.raised = None
    /\ \E p \in DOMAIN strategy.move_scores :
          /\ given[p] = None /\ p # acall.move
          /\ ScorePositive(strategy.move_scores[p])
    /\ \A p \in Coords : Completes(given, "X", p) <=> p = acall.move
    /\ \E p \in Coords : Completes(given, "O", p)
    /\ given[center_positions[2]] = None

\* a MinimaxAI returned the cell that wins
C21_MinimaxWins ==
    /\ Chose /\ strategy.ai = "MinimaxAI" /\ acall.raised = None
    /\ Completes(given, strategy.player_symbol, acall.move)

\* C22: when no empty cell wins for the acting symbol and some empty cell
\* completes a line for an opposing symbol on the board, get_move of a
\* SimpleAI, a LearnedAI and a MinimaxAI (called with the board alone)
\* returns an empty cell that completes a line for an opposing symbol.
C22_BlockSecond ==
    (/\ Chose
     /\ \A p \in Coords : ~Completes(given, strategy.player_symbol, p)
     /\ \E p \in Coords : Blocks(given, strategy.player_symbol, p))
        => /\ acall.raised = None
           /\ Blocks(given, strategy.player_symbol, acall.move)

\* C22 witness: a LearnedAI with no win to play returned a blocking cell,
\* its table rating another empty cell positive and central cells being free
C22_Witness ==
    /\ Chose /\ strategy.ai = "LearnedAI" /\ acall.raised = None
    /\ \A p \in Coords : ~Completes(given, strategy.player_symbol, p)
    /\ Blocks(given, strategy.player_symbol, acall.move)
    /\ \E p \in DOMAIN strategy.move_scores :
          /\ given[p] = None /\ p # acall.move
          /\ ScorePositive(strategy.move_scores[p])
    /\ given[center_positions[2]] = None

\* a MinimaxAI with no win to play returned a blocking cell
C22_MinimaxBlocks ==
    /\ Chose /\ strategy.ai = "MinimaxAI" /\ acall.raised = None
    /\ \A p \in Coords : ~Completes(given, strategy.player_symbol, p)
    /\ Blocks(given, strategy.player_symbol, acall.move)

\* p comes before q in (w, x, y, z) ascending order
Earlier(p, q) ==
    27 * p[1] + 9 * p[2] + 3 * p[3] + p[4]
       < 27 * q[1] + 9 * q[2] + 3 * q[3] + q[4]

\* C23 as stated: of several cells that win, the first in (w, x, y, z) order
\* is returned; with no win, of all the cells that complete a line for some
\* opposing symbol the first in (w, x, y, z) order is returned, whatever
\* the order in which the opposing symbols are examined.
C23_TieBreaks ==
    (Chose /\ acall.raised = None) =>
        IF \E p \in Coords : Completes(given, strategy.player_symbol, p)
        THEN /\ Completes(given, strategy.player_symbol, acall.move)
             /\ \A q \in Coords :
                   Completes(given, strategy.player_symbol, q)
                      => ~Earlier(q, acall.move)
        ELSE (\E p \in Coords : Blocks(given, strategy.player_symbol, p))
                => /\ Blocks(given, strategy.player_symbol, acall.move)
                   /\ \A q \in Coords :
                         Blocks(given, strategy.player_symbol, q)
                            => ~Earlier(q, acall.move)

\* what holds of the tie-breaks: the cell returned is the first winning
\* cell, or with no win the first cell that completes a line for one of
\* the opposing symbols, which one being open
C23_FirstOfOneSymbol ==
    (Chose /\ acall.raised = None) =>
        IF \E p \in Coords : Completes(given, strategy.player_symbol, p)
        THEN /\ Completes(given, strategy.player_symbol, acall.move)
             /\ \A q \in Coords :
                   Completes(given, strategy.player_symbol, q)
                      => ~Earlier(q, acall.move)
        ELSE (\E p \in Coords : Blocks(given, strategy.player_symbol, p))
                => \E o \in Opposing(given, strategy.player_symbol) :
                      /\ Completes(given, o, acall.move)
                      /\ \A q \in Coords :
                            Completes(given, o, q) => ~Earlier(q, acall.move)

\* two opposing symbols could each be blocked, and the cell returned was
\* not the first of the blocking cells
C23_LaterBlock ==
    /\ Chose /\ acall.raised = None
    /\ \A p \in Coords : ~Completes(given, strategy.player_symbol, p)
    /\ Blocks(given, strategy.player_symbol, acall.move)
    /\ \E q \in Coords :
          Blocks(given, strategy.player_symbol, q) /\ Earlier(q, acall.move)

\* two cells won, and the first of them was returned
C23_FirstOfTwoWins ==
    /\ Chose /\ acall.raised = None
    /\ Completes(given, strategy.player_symbol, acall.move)
    /\ \E q \in Coords :
          Completes(given, strategy.player_symbol, q) /\ Earlier(acall.move, q)

\* the 15 central coordinates: all four axes at 1, three axes at 1, or two
\* axes at 1 and two at 0
Central ==
    {p \in Coords :
        \/ Cardinality({a \in 1 .. 4 : p[a] = 1}) >= 3
        \/ /\ Cardinality({a \in 1 .. 4 : p[a] = 1}) = 2
           /\ Cardinality({a \in 1 .. 4 : p[a] = 0}) = 2}

\* no empty cell wins for the acting symbol or blocks an opposing one
NothingForced ==
    \A p \in Coords : /\ ~Completes(given, strategy.player_symbol, p)
                      /\ ~Blocks(given, strategy.player_symbol, p)

\* C24: with neither a winning nor a blocking cell, SimpleAI.get_move
\* returns one of the 15 central coordinates whenever one of them is empty,
\* and a non-central empty cell only when all 15 are taken.
C24_CentreElseAny ==
    /\ Cardinality(Central) = 15
    /\ (/\ Chose /\ strategy.ai = "SimpleAI" /\ acall.raised = None
        /\ NothingForced)
          => /\ given[acall.move] = None
             /\ acall.move \in Central
                   <=> \E c \in Central : given[c] = None

\* C24 witness: with all 15 central cells taken and nothing to win or
\* block, a SimpleAI returned an empty cell
C24_Witness ==
    /\ Chose /\ strategy.ai = "SimpleAI" /\ acall.raised = None
    /\ NothingForced
    /\ \A c \in Central : given[c] # None
    /\ given[acall.move] = None

\* with central and non-central cells empty and nothing to win or block, a
\* SimpleAI returned a central cell
C24_CentreTaken ==
    /\ Chose /\ strategy.ai = "SimpleAI" /\ acall.raised = None
    /\ NothingForced
    /\ \E p \in Coords \ Central : given[p] = None
    /\ acall.move \in Central

\* C25: after get_move of a SimpleAI, a MinimaxAI or a LearnedAI has
\* returned or raised, every cell of the Board it was given holds the value
\* it held before the call; the trial placements, those of the minimax
\* search included, are made on copies.
C25_BoardUntouched ==
    /\ Cells(heap, orig) = given
    /\ Len(heap) = ListsPerBoard

\* C25 witness: a MinimaxAI searching two plies, with nothing to win or
\* block, returned a cell of a board with two empty cells, and the board
\* was as before
C25_Witness ==
    /\ strategy.ai = "MinimaxAI" /\ strategy.max_depth = 2
    /\ acall.op = "get_move" /\ acall.raised = None
    /\ given = QuietBoard(2)
    /\ Cells(heap, orig) = given

\* taking the empty cell c of board b for symbol leaves no opposing symbol
\* of the board a cell that completes one of its lines
Safe(b, symbol, c) ==
    /\ b[c] = None
    /\ LET after == [b EXCEPT ![c] = symbol]
       IN  \A o \in Opposing(b, symbol), q \in Coords :
               ~ Completes(after, o, q)

\* C26: for a MinimaxAI with max_depth 1, when the board has an empty cell
\* whose taking leaves no opposing symbol of the board able to complete a
\* line with its next placement, the cell get_move returns completes a line
\* for the acting symbol or is such a cell.
C26_NoImmediateLoss ==
    (/\ Chose /\ strategy.ai = "MinimaxAI" /\ strategy.max_depth = 1
     /\ \E c \in Coords : Safe(given, strategy.player_symbol, c))
        => /\ acall.raised = None
           /\ \/ Completes(given, strategy.player_symbol, acall.move)
              \/ Safe(given, strategy.player_symbol, acall.move)

\* C26 witness: on a board with two empty cells, one of which completes a
\* line of an opposing symbol, a MinimaxAI with max_depth 1 that has nothing
\* to win returned the cell that leaves no line open, while the other cell
\* would have left it open
C26_Witness ==
    /\ Chose /\ strategy.ai = "MinimaxAI" /\ strategy.max_depth = 1
    /\ acall.raised = None
    /\ given = ThreatBoard
    /\ ~ \E p \in Coords : Completes(given, strategy.player_symbol, p)
    /\ acall.move = ThreatCell
    /\ Safe(given, strategy.player_symbol, acall.move)
    /\ ~ Safe(given, strategy.player_symbol, QuietCells[1])

\* the strategy is a LearnedAI whose move_scores is empty
Untrained == strategy.ai = "LearnedAI" /\ DOMAIN strategy.move_scores = {}

\* C27: on every board and for every symbol, get_move of a LearnedAI whose
\* score table is empty can return exactly what get_move of a SimpleAI can
\* return: the same winning cell, the same blocking cells, and otherwise
\* any cell of the same list given to random.choice (or the same
\* ValueError); what it returned is one of them.
C27_UntrainedIsSimple ==
    Untrained =>
        LET me == strategy.player_symbol
            simple == SimpleAI_get_move(get_win_checker, given, me)
        IN  /\ LearnedAI_get_move(get_win_checker, given, me,
                                  strategy.move_scores) = simple
            /\ Chose => [raised |-> acall.raised, move |-> acall.move]
                            \in simple

\* C27 witness: a LearnedAI with an empty score table returned the cell
\* that blocks the one open line of an opposing symbol
C27_Witness ==
    /\ Untrained /\ Chose /\ acall.raised = None
    /\ given = ThreatBoard
    /\ ~ \E p \in Coords : Completes(given, strategy.player_symbol, p)
    /\ acall.move = ThreatCell

\* C27 second witness: with nothing to win or to block, a LearnedAI with an
\* empty score table returned a central cell of the empty board
C27_UntrainedCentre ==
    /\ Untrained /\ Chose /\ acall.raised = None
    /\ given = Board_init
    /\ acall.move \in Central

\* the constructor of a LearnedAI or load_training_data returned last
LoadedLast == acall.op \in {"__init__", "load_training_data"}

\* the entries of the log in the file: the pairs of a game's and a move's
\* number
LogEntries(file) ==
    {e \in (1 .. Len(file.games)) \X (1 .. MaxMoves + 1) :
        e[2] <= Len(file.games[e[1]].moves)}

\* the entry numbered e
LogEntry(file, e) == file.games[e[1]].moves[e[2]]

\* a move entry that is no {coordinate, reward}: no 'move', a 'move' that
\* is no cell of the board, or a 'reward' that is no number (an entry
\* without 'reward' is taken as one with reward 0)
MalformedMove(move_data) ==
    \/ move_data.move.kind = "absent"
    \/ move_data.move.value \notin Coords
    \/ move_data.reward.kind = "string"

\* the file is missing, is not JSON, or holds a game that is no dict or a
\* malformed move entry
Unusable(file) ==
    \/ file.kind # "json"
    \/ \E g \in 1 .. Len(file.games) : file.games[g].kind = "number"
    \/ \E e \in LogEntries(file) : MalformedMove(LogEntry(file, e))

\* the try block of the last load was left by an exception
Caught(file) ==
    Analyse(Statistics(<< >>, << >>, << >>), file).raised # None

\* C28: when the file given to the constructor of a LearnedAI is missing,
\* is not valid JSON, or contains a malformed game or move entry anywhere,
\* the constructor returns and the score table is empty (as it was before
\* the load), so that move selection is that of SimpleAI.
C28_LoadFallsBack ==
    (acall.op = "__init__" /\ Unusable(training_data))
        => /\ acall.raised = None
           /\ strategy.move_scores = << >>

\* what holds of C28: no load raises, and a load whose try block was left
\* by an exception leaves the score table as it was, with no score from
\* the entries read before the exception
C28_CaughtLeavesTable ==
    [][(LoadedLast' /\ Caught(training_data'))
          => /\ acall'.raised = None
             /\ strategy'.move_scores =
                    IF acall'.op = "__init__" THEN << >>
                    ELSE strategy.move_scores]_vars

\* a log with a move entry whose 'move' has two numbers was loaded by the
\* constructor and left a score for << 0, 0 >>
C28_ShortCoordinateScored ==
    /\ acall.op = "__init__" /\ Unusable(training_data)
    /\ << 0, 0 >> \in DOMAIN strategy.move_scores

\* the entries of the log for coordinate c, and those of them with a
\* positive and with a negative reward
EntriesFor(file, c) ==
    {e \in LogEntries(file) : LogEntry(file, e).move.value = c}
PositiveFor(file, c) ==
    {e \in EntriesFor(file, c) :
        /\ LogEntry(file, e).reward.kind = "number"
        /\ LogEntry(file, e).reward.value > 0}
NegativeFor(file, c) ==
    {e \in EntriesFor(file, c) :
        /\ LogEntry(file, e).reward.kind = "number"
        /\ LogEntry(file, e).reward.value < 0}

\* the coordinates that occur in the log
Logged(file) == {LogEntry(file, e).move.value : e \in LogEntries(file)}

\* C29: after a load that succeeded, every coordinate that occurs in the
\* log has the score (entries with reward > 0 minus entries with
\* reward < 0) / entries, which lies between -1 and 1; after the load of a
\* new LearnedAI a coordinate that does not occur has no entry, and is
\* scored 0 when a move is selected.
C29_ScoreIsNetWinRate ==
    (LoadedLast /\ ~ Caught(training_data)) =>
        /\ \A c \in Logged(training_data) :
              /\ c \in DOMAIN strategy.move_scores
              /\ strategy.move_scores[c] =
                    Score(Cardinality(PositiveFor(training_data, c))
                            - Cardinality(NegativeFor(training_data, c)),
                          Cardinality(EntriesFor(training_data, c)))
              /\ strategy.move_scores[c].den > 0
              /\ 0 - strategy.move_scores[c].den
                    <= strategy.move_scores[c].num
              /\ strategy.move_scores[c].num
                    <= strategy.move_scores[c].den
        /\ acall.op = "__init__" =>
              /\ DOMAIN strategy.move_scores = Logged(training_data)
              /\ \A c \in Coords \ Logged(training_data) :
                     ScoreOf(strategy.move_scores, c) = Score(0, 1)

\* C29 witness: the constructor loaded a log with three entries for
\* << 1, 1, 1, 1 >>, two with a positive and one with a negative reward,
\* and the score of the cell is 1/3
C29_Witness ==
    /\ acall.op = "__init__" /\ ~ Caught(training_data)
    /\ Cardinality(PositiveFor(training_data, << 1, 1, 1, 1 >>)) = 2
    /\ Cardinality(NegativeFor(training_data, << 1, 1, 1, 1 >>)) = 1
    /\ strategy.move_scores[<< 1, 1, 1, 1 >>] = Score(1, 3)

\* the occupied cells of the line l of board b, and the symbols on them
Occupants(b, l) == {q \in l : b[q] # None}
Kinds(b, l) == {b[q] : q \in Occupants(b, l)}

\* what the line l adds to the evaluation for symbol: 10 for each cell when
\* all occupants carry symbol, -10 for each cell when all carry one other
\* symbol, nothing when the line is empty or holds more than one symbol
OneSymbolLineScore(b, l, symbol) ==
    IF Kinds(b, l) = {symbol} THEN 10 * Cardinality(Occupants(b, l))
    ELSE IF Cardinality(Kinds(b, l)) = 1
    THEN 0 - 10 * Cardinality(Occupants(b, l))
    ELSE 0

\* the sum of OneSymbolLineScore over the lines of the lattice
OneSymbolEvaluation(b, symbol) ==
    LET scores == {<< l, OneSymbolLineScore(b, l, symbol) >> : l \in Lattice}
    IN    10 * LinesScoring(scores, 10) + 20 * LinesScoring(scores, 20)
        + 30 * LinesScoring(scores, 30)
        - 10 * LinesScoring(scores, -10) - 20 * LinesScoring(scores, -20)
        - 30 * LinesScoring(scores, -30)

\* the occupied cells on the lines without symbol that hold more than one
\* other symbol, counted once for each such line
SharedByOpponents(b, symbol) ==
    {<< l, q >> \in Lattice \X Coords :
        /\ q \in Occupants(b, l)
        /\ symbol \notin Kinds(b, l)
        /\ Cardinality(Kinds(b, l)) > 1}

\* a MinimaxAI with max_depth 1 searched: nothing to win or to block, and
\* the board after its move was evaluated at the depth cutoff
Evaluated ==
    /\ Chose /\ strategy.ai = "MinimaxAI" /\ strategy.max_depth = 1
    /\ acall.raised = None /\ NothingForced

\* C30: the static evaluation of a board at the depth cutoff is the sum
\* over the 272 lines of +10 for each cell of a line whose occupants all
\* carry the acting symbol, -10 for each cell of a line whose occupants all
\* carry one opposing symbol, and 0 for an empty line and for a line with
\* more than one symbol.
C30_StaticEvaluation ==
    Evaluated =>
        LET me == strategy.player_symbol
            after == TestBoard(given, me, acall.move)
        IN  evaluate_position(get_win_checker, after, me)
              = OneSymbolEvaluation(after, me)

\* what holds of C30: a line without the acting symbol that holds several
\* opposing symbols is not left out, it adds -10 for each of its occupied
\* cells
C30_OpponentsCountTogether ==
    Evaluated =>
        LET me == strategy.player_symbol
            after == TestBoard(given, me, acall.move)
        IN  evaluate_position(get_win_checker, after, me)
              = OneSymbolEvaluation(after, me)
                  - 10 * Cardinality(SharedByOpponents(after, me))

\* a board with a line shared by two opposing symbols was evaluated
C30_SharedLineEvaluated ==
    /\ Evaluated
    /\ SharedByOpponents(TestBoard(given, strategy.player_symbol,
                                   acall.move),
                         strategy.player_symbol) # {}

\* _minimax returned last
Minimaxed == search.op = "_minimax"

\* C31: _minimax called with alpha = -inf and beta = inf returns, for every
\* board, depth and side to move, the value that the same recursion returns
\* with the two pruning breaks taken out.
C31_PruningKeepsValue ==
    Minimaxed =>
        search.value = FullNode(get_win_checker, given,
                                strategy.player_symbol, search.depth,
                                search.maximizing, search.opponent_symbols)

\* what holds of C31: up to one placement below the board of the call
\* nothing is pruned, and the two values are the same
C31_ShallowKeepsValue ==
    (Minimaxed /\ 0 <= search.depth /\ search.depth <= 1) =>
        search.value = FullNode(get_win_checker, given,
                                strategy.player_symbol, search.depth,
                                search.maximizing, search.opponent_symbols)

\* a maximizing call of depth 2 returned a value below -1000 on a board
\* where the recursion without the breaks finds a lost position, -1000
C31_LossPrunedAway ==
    /\ Minimaxed /\ search.depth = 2 /\ search.maximizing
    /\ given = LossBoard
    /\ search.value < -1000
    /\ FullNode(get_win_checker, given, strategy.player_symbol,
                search.depth, search.maximizing, search.opponent_symbols)
          = -1000

\* get_move of a MinimaxAI returned last
Searched_get_move == search.op = "get_move"

\* the number of empty cells of board b
EmptyCount(b) == Cardinality({p \in Coords : b[p] = None})

\* C32: whatever max_depth a MinimaxAI was constructed with (0 and
\* negative values included), get_move looks at no board that is more than
\* max(max_depth, 1) placements away from the board it was given.
C32_DepthBoundsSearch ==
    Searched_get_move => search.plies <= Max(strategy.max_depth, 1)

\* what holds of C32: with max_depth of 1 or more the bound holds, and
\* with any max_depth the search ends at the latest when the board is
\* full
C32_PositiveDepthBoundsSearch ==
    Searched_get_move =>
        /\ search.plies <= EmptyCount(given)
        /\ strategy.max_depth >= 1 => search.plies <= strategy.max_depth

\* a MinimaxAI with max_depth 0 looked at the full board, MaxEmpty
\* placements away from the board it was given
C32_SearchedToFullBoard ==
    /\ Searched_get_move /\ strategy.max_depth = 0
    /\ given = QuietBoard(MaxEmpty)
    /\ search.plies = MaxEmpty

\* a MinimaxAI with max_depth 2 looked two placements ahead and no further
C32_SearchedTwoPlies ==
    /\ Searched_get_move /\ strategy.max_depth = 2
    /\ given = QuietBoard(MaxEmpty)
    /\ search.plies = 2

\* the number of cells of board b that hold symbol
CellsOf(b, symbol) == Cardinality({p \in Coords : b[p] = symbol})

\* board b can be reached in a game of X, O, A and B: no line is complete,
\* and the symbols have had their turns in order (the cells can then be
\* taken in an order that follows the turns, and no line is complete
\* earlier)
Playable(b) ==
    /\ check_win_all_positions(get_win_checker, b) \in {None, ""}
    /\ \A p \in Coords : b[p] \in {None, "X", "O", "A", "B"}
    /\ CellsOf(b, "X") >= CellsOf(b, "O")
    /\ CellsOf(b, "O") >= CellsOf(b, "A")
    /\ CellsOf(b, "A") >= CellsOf(b, "B")
    /\ CellsOf(b, "B") >= CellsOf(b, "X") - 1

\* C33: on a board that can be reached in a game, every value that
\* _minimax returns (the static evaluation, which it returns at depth 0,
\* included) lies between -1000 and +1000, the values of a lost and of a
\* won position.
C33_ValuesWithinWinAndLoss ==
    (Minimaxed /\ Playable(given)) =>
        /\ -1000 <= search.value
        /\ search.value <= 1000

\* what holds of C33: the values are finite, no line adds more than 30 to
\* or takes more than 30 from the static evaluation
C33_ValuesFinite ==
    Minimaxed =>
        /\ 0 - 30 * count_winning_lines(get_win_checker) <= search.value
        /\ search.value <= 30 * count_winning_lines(get_win_checker)

\* the static evaluation of the board before the last move of the drawn
\* game, for X, is below the value of a lost position
C33_EvaluationBelowLoss ==
    /\ Minimaxed /\ search.depth = 0
    /\ given = DrawBoard(Len(DrawLog) - 1) /\ Playable(given)
    /\ strategy.player_symbol = "X"
    /\ search.value = evaluate_position(get_win_checker, given, "X")
    /\ search.value < -1000

\* get_move of a LearnedAI returned a cell, with nothing to win or block
Selected ==
    /\ Chose /\ strategy.ai = "LearnedAI" /\ acall.raised = None
    /\ NothingForced

\* the score of cell p in the table of the strategy (0 without an entry)
CellScore(p) == ScoreOf(strategy.move_scores, p)

\* score s is at most 0.1 below score t
WithinTenth(s, t) == 10 * (t.num * s.den - s.num * t.den) <= s.den * t.den

\* C34: when a LearnedAI with a non-empty score table has nothing to win or
\* block, and some empty cell has a positive score, get_move returns an
\* empty cell whose score is within 0.1 of the highest score of an empty
\* cell; and when nothing is to win or block and some empty cell has a
\* score of -0.3 or more, the cell returned has no score below -0.3.
C34_LearnedSelection ==
    Selected =>
        /\ (/\ DOMAIN strategy.move_scores # {}
            /\ \E p \in Coords : /\ given[p] = None
                                  /\ ScorePositive(CellScore(p)))
              => /\ given[acall.move] = None
                 /\ \A q \in Coords :
                        given[q] = None
                          => WithinTenth(CellScore(acall.move), CellScore(q))
        /\ (\E p \in Coords : given[p] = None /\ ~ ScoreBad(CellScore(p)))
              => ~ ScoreBad(CellScore(acall.move))

\* C34 witness: on a board with an empty cell of score -1 and an empty cell
\* without a score, and no empty cell of positive score, a LearnedAI
\* returned the cell without a score
C34_Witness ==
    /\ Selected
    /\ given[QuietCells[1]] = None /\ ScoreBad(CellScore(QuietCells[1]))
    /\ \A p \in Coords : given[p] = None => ~ ScorePositive(CellScore(p))
    /\ acall.move # QuietCells[1]
    /\ CellScore(acall.move) = Score(0, 1)

\* C34 second witness: on the empty board a LearnedAI returned a cell with
\* the score 9/10, the highest score being 1
C34_NearTopReturned ==
    /\ Selected /\ given = Board_init
    /\ \E p \in Coords : CellScore(p) = Score(1, 1)
    /\ CellScore(acall.move) = Score(9, 10)

\* the symbols found on board b
SymbolsOn(b) == {b[p] : p \in Coords} \ {None}

\* C35: in every reachable state of a Game that is Playing, no symbol owns a
\* completed line (check_win_all_positions finds no owner) and at least one
\* cell of the board is empty.
C35_PlayingIsOpen ==
    state = PLAYING =>
        /\ check_win_all_positions(get_win_checker, board) \in {None, ""}
        /\ \A symbol \in SymbolsOn(board) : ~OwnsLine(board, symbol)
        /\ ~Full(board)

\* a Playing game one move before the board is full
C35_Witness ==
    /\ state = PLAYING
    /\ op = "make_move" /\ ret.ok
    /\ Len(move_history) = SIZE * SIZE * SIZE * SIZE - 1

\* C36: in a Finished Game the winner is none exactly when the board is full
\* and no symbol owns a completed line, and the winner is set exactly when
\* the winning line is set.
C36_FinishedOutcome ==
    state = FINISHED =>
        /\ winner = NoPlayer <=>
              (Full(board)
               /\ \A symbol \in SymbolsOn(board) : ~OwnsLine(board, symbol))
        /\ winner # NoPlayer <=> winning_line # << >>

\* a game finished by a line of a player other than the first of the roster
C36_Witness ==
    /\ state = FINISHED
    /\ op = "make_move" /\ ret.ok
    /\ winner \in 2 .. Len(players)
    /\ winning_line # << >>
    /\ ~Full(board)

\* a game finished by the move that filled the board without a line
C36_FinishedFull ==
    /\ state = FINISHED
    /\ op = "make_move" /\ ret.ok
    /\ winner = NoPlayer /\ winning_line = << >>
    /\ Full(board)

\* C37: in every reachable state of a Game the identifiers of the roster are
\* pairwise distinct and the symbol map gives each roster player's symbol
\* under that player's identifier, whatever add_player calls were made.
C37_RosterConsistent ==
    /\ \A i, j \in 1 .. Len(players) :
          players[i].player_id = players[j].player_id => i = j
    /\ \A i \in 1 .. Len(players) :
          /\ players[i].player_id \in DOMAIN player_symbols
          /\ player_symbols[players[i].player_id] = players[i].symbol

\* what holds of the roster and the symbol map: the symbols of the roster
\* are pairwise distinct, the map has exactly the identifiers of the roster,
\* and under each identifier it gives the symbol of the last roster player
\* registered with it
C37_LastRegistrationKept ==
    /\ \A i, j \in 1 .. Len(players) :
          players[i].symbol = players[j].symbol => i = j
    /\ DOMAIN player_symbols =
          {players[i].player_id : i \in 1 .. Len(players)}
    /\ \A i \in 1 .. Len(players) :
          (\A j \in (i + 1) .. Len(players) :
               players[j].player_id # players[i].player_id)
          => player_symbols[players[i].player_id] = players[i].symbol

\* add_player has accepted an identifier that the roster already had
C37_IdentifierReused ==
    /\ op = "add_player" /\ ret.ok
    /\ Len(players) = 2
    /\ players[1].player_id = players[2].player_id
    /\ player_symbols[players[1].player_id] # players[1].symbol

\* the number of cells of the board, 81
CellCount == SIZE * SIZE * SIZE * SIZE

\* C38: the move log of a started Game never holds more than 81 records,
\* and a run in which the current player keeps submitting legal moves
\* reaches Finished.
C38_GameEnds ==
    /\ [](Len(move_history) <= CellCount)
    /\ (state = PLAYING) ~> (state = FINISHED)

\* the move log never holds more than 81 records
C38_LogBounded == Len(move_history) <= CellCount

\* the game was finished by the 81st accepted move
C38_Witness ==
    /\ state = FINISHED
    /\ op = "make_move" /\ ret.ok
    /\ Len(move_history) = CellCount

\* the step is a pass of the loop body for the current player: a strategy
\* constructed with that player's symbol was given the board of the game
PlayStep ==
    /\ state = PLAYING
    /\ op' = "make_move"
    /\ given' = board
    /\ acall'.op = "get_move"
    /\ strategy' \in PlayStrategies(players[get_current_player(Self)].symbol)
    /\ acall' \in {StrategyCall("get_move", None, r) :
                      r \in get_move(strategy', board)}
    /\ ret' = SubmitMove(Self, players[get_current_player(Self)].player_id,
                         [raised |-> acall'.raised, move |-> acall'.move]).ret

\* C39: in a Playing state, when the strategy of the current player is
\* given the board copy and the coordinate it returns is submitted with the
\* current player's identifier, make_move accepts it.
C39_StrategyMoveAccepted ==
    [][PlayStep => /\ acall'.raised = None
                   /\ ret'.ok
                   /\ board'[acall'.move] = player_symbols[
                         players[get_current_player(Self)].player_id]
                   /\ Len(move_history') = Len(move_history) + 1]_vars

\* moves returned by each of the three strategies have been accepted, the
\* last one by a MinimaxAI
C39_Witness ==
    /\ op = "make_move" /\ ret.ok
    /\ strategy.ai = "MinimaxAI"
    /\ acall.op = "get_move"
    /\ Len(move_history) > CellCount - MaxLeft
    /\ board[acall.move] = strategy.player_symbol
    /\ given[acall.move] = None
    /\ move_history[Len(move_history)][2] = acall.move

====
